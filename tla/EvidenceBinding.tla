-------------------------- MODULE EvidenceBinding --------------------------
(***************************************************************************)
(* The repository evidence is bound to (scripts/evidence_binding.py): its  *)
(* commits, the working tree, and the rules that tie a measurement to a    *)
(* commit.  A tree is the version of its code under the live-freshness     *)
(* paths ("live") and of its other code ("app"); everything else a path    *)
(* can be is documentation or an evidence file.  An edit makes a new       *)
(* version or brings a committed one back (git checkout, reset, revert).   *)
(*                                                                         *)
(* History is linear with amended heads.  A commit keeps its line, the     *)
(* first-parent list that ends in itself.                                  *)
(***************************************************************************)
EXTENDS Naturals, Sequences, FiniteSets, FiniteSetsExt, SequencesExt

CONSTANTS
    Files,          \* the evidence files, the gates' reports included
    MigrationsAt,   \* app version -> the migration files: [rev, down] records
    GoldenAt,       \* live version -> the golden cases
    MaxCommits, MaxEdits, MaxTime,   \* bounds
    Null

\* Every revision a migration names is declared by some file.
ASSUME MigrationAssumption ==
    \A v \in DOMAIN MigrationsAt : \A f \in MigrationsAt[v] :
        Range(f.down) \subseteq {g.rev : g \in MigrationsAt[v]}

VARIABLES
    commits,    \* every commit object ever made
    head,
    work,       \* the code of the working tree
    dirt,       \* uncommitted paths that are not code
    manifest,   \* .build/image-digests.json: "absent", "recorded" or "malformed"
    clock,
    strayed,    \* history: the commits since which the working tree held other code
    edits       \* how often code was edited, for the bound

repoVars == <<commits, head, work, dirt, manifest, clock, strayed, edits>>

CodePaths == {"live", "app"}
Docs == "docs"

----------------------------------------------------------------------------
(* git.                                                                      *)

IsAncestor(c, d) == c \in Range(commits[d].line)

\* working_tree_status: what is uncommitted, less what the caller exempts.
DirtyPaths(ignored) == ({k \in CodePaths : work[k] # commits[head].tree[k]} \cup dirt) \ ignored

\* _is_code_path over _commit_touches.
TouchesCode(c) == commits[c].touches \cap CodePaths # {}

\* nearest_code_commit: the last commit of c's line that touched code, provided
\* no code differs between the two; Null is its ValueError.
NearestCodeCommit(c) ==
    LET line == commits[c].line
        code == {i \in DOMAIN line : TouchesCode(line[i])}
    IN IF code = {} THEN Null
       ELSE LET n == line[Max(code)] IN IF commits[n].tree = commits[c].tree THEN n ELSE Null

----------------------------------------------------------------------------
(* The parts of a binding block.                                             *)

\* A missing manifest is an honest absence, a malformed one is refused.
ImageBindingOk == manifest # "malformed"

\* _revision_graph: two files with one revision are refused.
GraphOk(files) == \A f, g \in files : f.rev = g.rev => f = g

\* resolve_alembic_head: the revisions no other refers to; one or refused.
AlembicHeads(files) == {f.rev : f \in files} \ UNION {Range(f.down) : f \in files}
AlembicHeadOk(files) == GraphOk(files) /\ Cardinality(AlembicHeads(files)) = 1
AlembicHead(files) == CHOOSE r \in AlembicHeads(files) : TRUE

\* resolve_alembic_chain: from the head along single parents.  A merge revision
\* has two, is not a string, and ends the walk.
AlembicChain(files) ==
    LET down(r) == (CHOOSE f \in files : f.rev = r).down
        at[i \in 0..Cardinality(files)] ==
            IF i = 0 THEN AlembicHead(files)
            ELSE IF at[i - 1] = Null \/ Len(down(at[i - 1])) # 1 THEN Null
            ELSE down(at[i - 1])[1]
    IN {at[i] : i \in 0..Cardinality(files)} \ {Null}

\* _evaluation_dataset_binding: a repeated case id is refused.
DatasetOk == IsInjective([i \in DOMAIN GoldenAt[work.live] |-> GoldenAt[work.live][i].id])

Refused == [ok |-> FALSE]

\* resolve_code_binding: HEAD and whether the tree is dirty; a dirty tree is
\* refused unless the caller allows it.
CodeBinding(allowDirty, ignored) ==
    LET dirty == DirtyPaths(ignored) # {}
    IN IF dirty /\ ~allowDirty THEN Refused
       ELSE [ok |-> TRUE, commit |-> head, dirty |-> dirty]

\* resolve_bindings: a code block is reused from a donor or read from the tree.
\* Only the latter can record the override, and the exemptions it needed.  The
\* parts are what the caller binds besides: the golden cases, and images of the
\* local build rather than images a suite recorded.
ResolveBindings(donor, allowDirty, ignored, parts) ==
    LET code == IF donor # Null
                THEN IF donor.dirty /\ ~allowDirty THEN Refused
                     ELSE [ok |-> TRUE, commit |-> donor.commit, dirty |-> donor.dirty]
                ELSE CodeBinding(allowDirty, ignored)
    IN IF \/ ~code.ok \/ ~AlembicHeadOk(MigrationsAt[work.app])
          \/ "images" \in parts /\ ~ImageBindingOk
          \/ "golden" \in parts /\ ~DatasetOk
       THEN Refused
       ELSE [ok |-> TRUE, commit |-> code.commit, dirty |-> code.dirty,
             override |-> donor = Null /\ code.dirty,
             scope |-> IF donor = Null THEN DirtyPaths({}) \cap ignored ELSE {},
             schema |-> AlembicHead(MigrationsAt[work.app])]

----------------------------------------------------------------------------
\* audit_evidence_file over the bindings a file carries: an empty set is bound.
Audit(b) ==
    {v \in {"schema", "dirty", "ancestor", "no code"} :
        \/ v = "schema" /\ b.schema \notin AlembicChain(MigrationsAt[work.app])
        \/ v = "dirty" /\ b.dirty /\ ~b.override
        \/ v = "ancestor" /\ ~IsAncestor(b.commit, head)
        \/ v = "no code" /\ IsAncestor(b.commit, head) /\ ~TouchesCode(b.commit)}

----------------------------------------------------------------------------
(* The developers.                                                           *)

RepoInit ==
    /\ commits = <<[line |-> <<1>>, tree |-> [k \in CodePaths |-> 0],
                    touches |-> CodePaths, date |-> 0]>>
    /\ head = 1
    /\ work = [k \in CodePaths |-> 0]
    /\ dirt = {}
    /\ manifest \in {"absent", "malformed"}
    /\ clock = 0
    /\ strayed = {} /\ edits = 0

\* The working tree changes; no commit is asked whether it still has its code.
SetWork(tree) ==
    /\ edits < MaxEdits /\ edits' = edits + 1
    /\ work' = tree
    /\ strayed' = strayed \cup {c \in DOMAIN commits : commits[c].tree # tree}

NewVersion(k) == SetWork([work EXCEPT ![k] = @ + 1])

EditCode(k) ==
    /\ \/ NewVersion(k)
       \/ \E c \in DOMAIN commits : /\ commits[c].tree[k] # work[k]
                                    /\ SetWork([work EXCEPT ![k] = commits[c].tree[k]])
    /\ UNCHANGED <<commits, head, dirt, manifest, clock>>

EditDocs ==
    /\ Docs \notin dirt
    /\ dirt' = dirt \cup {Docs}
    /\ UNCHANGED <<commits, head, work, manifest, clock, strayed, edits>>

\* A commit of some of what is uncommitted, on `line`, that touches `touched`.
Committed(paths, line, touched, date) ==
    [line |-> Append(line, Len(commits) + 1),
     tree |-> [k \in CodePaths |-> IF k \in paths THEN work[k] ELSE commits[head].tree[k]],
     touches |-> touched \cup paths,
     date |-> date]

NewCommit(c) ==
    /\ Len(commits) < MaxCommits /\ clock < MaxTime
    /\ clock' = clock + 1
    /\ commits' = Append(commits, c)
    /\ head' = Len(commits) + 1
    /\ strayed' = strayed \cup (IF c.tree = work THEN {} ELSE {Len(commits) + 1})
    /\ UNCHANGED <<work, manifest, edits>>

Commit(paths) ==
    /\ paths # {} /\ paths \subseteq DirtyPaths({})
    /\ NewCommit(Committed(paths, commits[head].line, {}, clock + 1))
    /\ dirt' = dirt \ paths

\* git commit --amend: HEAD's parent gets a new child, with the date of now; the
\* old commit object stays.
Amend(paths) ==
    /\ paths \subseteq DirtyPaths({}) /\ Len(commits[head].line) > 1
    /\ NewCommit(Committed(paths, Front(commits[head].line), commits[head].touches, clock + 1))
    /\ dirt' = dirt \ paths

\* The build is repaired: record_image_digests writes a manifest.
RecordDigests ==
    /\ manifest # "recorded"
    /\ manifest' = "recorded"
    /\ UNCHANGED <<commits, head, work, dirt, clock, strayed, edits>>

Wait ==
    /\ clock < MaxTime
    /\ clock' = clock + 1
    /\ UNCHANGED <<commits, head, work, dirt, manifest, strayed, edits>>
=============================================================================
