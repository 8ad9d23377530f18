---------------------------- MODULE ResumeReview ----------------------------
(***************************************************************************)
(* Review packages of generated resumes: saving and compiling a document   *)
(* (fletcher/resume/review_store.py) and opening one from a job's attempt  *)
(* (review_from_attempt.py).  Compilation runs outside the publication     *)
(* lock of the directory; what it made is published under the lock in      *)
(* three durable steps - the revision's files are renamed into place, the  *)
(* package is replaced, the job's selection is moved on in the database -  *)
(* between which the process may die, and the directory may be removed,    *)
(* file by file: then the lock is lost, and a package may be written anew. *)
(* Only the no_summary version is modelled: no other is ever selected.     *)
(***************************************************************************)
EXTENDS ResumeSelection

CONSTANTS
  Compilers,   \* requests that compile or open, in progress at once
  Free,        \* no holder of a publication lock
  MaxEdits     \* bound: document_revision of a package

ASSUME ReviewAssumption == Free \notin Compilers /\ MaxEdits \in Nat

VARIABLES
  package,    \* review_package.json of each directory
  lock,       \* .review-publication.lock of each directory
  compiler    \* where each of these requests is, and what it has read

review == <<package, lock, compiler>>

\* rev and revDoc are compiled_revision and compiled_document_revision.
Version == [doc : Contents, docRev : Nat, dirty : BOOLEAN, rev : Revisions \cup {0},
            revDoc : Nat, status : {"ok", "failed"}]
Link == [job : HuntJobs \cup {NoJob}, attempt : Runs \cup {0}]
Unlinked == [job |-> NoJob, attempt |-> 0]
NoPackage == [there |-> FALSE]
Fresh(c, link) == [there |-> TRUE, link |-> link,
                   state |-> [doc |-> c, docRev |-> 0, dirty |-> FALSE, rev |-> 0,
                              revDoc |-> 0, status |-> "ok"]]
AnyVersion == Fresh(CHOOSE c \in Contents : TRUE, Unlinked).state
Package == [there : {TRUE}, link : Link, state : Version] \cup {NoPackage}
There(d) == package[d].there

CompilerPc == {"idle", "opening", "compiling", "promoted", "written"}
IdleCompiler == [pc |-> "idle", dir |-> <<1>>, snapshot |-> AnyVersion,
                 link |-> Unlinked, rev |-> 0]

ReviewTypeOK ==
  /\ package \in [Dirs -> Package]
  /\ lock \in [Dirs -> Compilers \cup {Free}]
  /\ compiler \in [Compilers -> [pc : CompilerPc, dir : Dirs, snapshot : Version,
                     link : Link, rev : Revisions \cup {0}]]

ReviewInit ==
  /\ package = [d \in Dirs |-> NoPackage]
  /\ lock = [d \in Dirs |-> Free]
  /\ compiler = [c \in Compilers |-> IdleCompiler]

Becomes(c, pc) == compiler' = [compiler EXCEPT ![c].pc = pc]
Idles(c) == compiler' = [compiler EXCEPT ![c] = IdleCompiler]
\* Of a lock whose file was removed there is nothing left to release.
Releases(c) == /\ lock' = [lock EXCEPT ![compiler[c].dir] = IF @ = c THEN Free ELSE @]
               /\ Idles(c)

-----------------------------------------------------------------------------
\* save_current_document() under the expected revision the HTTP routes demand
\* (another is answered with a conflict); revert saves the generated document.
Save(d, doc) ==
  /\ There(d) /\ lock[d] = Free /\ package[d].state.docRev < MaxEdits
  /\ package' = [package EXCEPT ![d].state.doc = doc, ![d].state.dirty = TRUE,
                                ![d].state.docRev = @ + 1]
  /\ UNCHANGED <<selection, lock, compiler>>

\* POST /api/jobs/{job_id}/resume/review: the job's selected attempt (else its
\* latest) is read, and its TeX, ...
OpenReads(c, j) ==
  /\ compiler[c].pc = "idle"
  /\ \E v \in Runs :
       LET d == attempts[v].pdf IN
       /\ attempts[v].job = j
       /\ IF selected[j].ver # 0 THEN v = selected[j].ver
          ELSE \A a \in Runs : attempts[a].job = j => a <= v
       /\ d \in Dirs
       /\ \E f \in disk :
            /\ f.pdf = d
            /\ compiler' = [compiler EXCEPT ![c] = [IdleCompiler EXCEPT
                 !.pc = "opening", !.dir = d, !.link = [job |-> j, attempt |-> v],
                 !.snapshot = Fresh(f.doc, Unlinked).state]]
  /\ UNCHANGED <<selection, package, lock>>

\* ... and when its first version has been compiled a package linked to both is
\* written into the directory, which is made again if it is not there; it replaces
\* the package the directory may have, whatever was edited in it.
OpenWrites(c) ==
  LET d == compiler[c].dir IN
  /\ compiler[c].pc = "opening" /\ lock[d] = Free
  /\ package' = [package EXCEPT ![d] = Fresh(compiler[c].snapshot.doc, compiler[c].link)]
  /\ Idles(c) /\ UNCHANGED <<selection, lock>>

-----------------------------------------------------------------------------
\* compile_current_document(): the version is read, then compiled elsewhere.
StartCompile(c, d) ==
  /\ compiler[c].pc = "idle" /\ There(d)
  /\ compiler' = [compiler EXCEPT ![c] = [IdleCompiler EXCEPT
                    !.pc = "compiling", !.dir = d, !.snapshot = package[d].state]]
  /\ UNCHANGED <<selection, package, lock>>

\* The lock is not obtained in time, the version has changed, a file is gone, or
\* the compiler produced nothing: nothing is published.
GiveUp(c) ==
  /\ compiler[c].pc \in {"opening", "compiling"} /\ Idles(c)
  /\ UNCHANGED <<selection, package, lock>>

\* Mutant of Unchanged: an edit during the compilation goes unnoticed.
UnchangedIfThere(c) == There(compiler[c].dir)

Unchanged(c) ==
  LET d == compiler[c].dir IN There(d) /\ package[d].state = compiler[c].snapshot

\* The document does not compile: the package says so.
CompileFails(c) ==
  LET d == compiler[c].dir IN
  /\ compiler[c].pc = "compiling" /\ lock[d] = Free /\ Unchanged(c)
  /\ package' = [package EXCEPT ![d].state.status = "failed"]
  /\ Idles(c) /\ UNCHANGED <<selection, lock>>

\* Mutant of NextRevision: a directory left by a publication that died is reused.
NextRevisionBlind(d) == package[d].state.rev + 1

\* The first revision after the package's whose directory does not exist yet.
NextRevision(d) ==
  LET last == package[d].state.rev IN
  CHOOSE n \in last + 1..last + MaxRevisions + 1 :
    ~OnDisk(Revision(d, n)) /\ \A m \in last + 1..n - 1 : OnDisk(Revision(d, m))

\* It compiles: the staging directory becomes the revision.
Promote(c) ==
  LET d == compiler[c].dir
      n == NextRevision(d) IN
  /\ compiler[c].pc = "compiling" /\ lock[d] = Free /\ Unchanged(c) /\ n <= Limit(d)
  /\ lock' = [lock EXCEPT ![d] = c]
  /\ disk' = {f \in disk : f.pdf # Revision(d, n)}
               \cup {[pdf |-> Revision(d, n), doc |-> compiler[c].snapshot.doc]}
  /\ compiler' = [compiler EXCEPT ![c].pc = "promoted",
                                  ![c].snapshot = package[d].state, ![c].rev = n,
                                  ![c].link = package[d].link]
  /\ UNCHANGED <<attempts, selected, ready, pending, package>>

\* The package read under the lock is written back with the new revision.
WritePackage(c) ==
  LET k == compiler[c] IN
  /\ k.pc = "promoted"
  /\ package' = [package EXCEPT ![k.dir] =
       [there |-> TRUE, link |-> k.link,
        state |-> [k.snapshot EXCEPT !.rev = k.rev, !.revDoc = k.snapshot.docRev,
                                     !.dirty = FALSE, !.status = "ok"]]]
  /\ Becomes(c, "written") /\ UNCHANGED <<selection, lock>>

\* The write raises, as it does when the directory was removed meanwhile.
WriteFails(c) ==
  /\ compiler[c].pc = "promoted"
  /\ Releases(c) /\ UNCHANGED <<selection, package>>

\* Mutant of FinishCompile: the number of pages is not looked at.
FinishAnyPages(c) ==
  LET k == compiler[c] IN
  /\ k.pc = "written"
  /\ \/ /\ k.link.job # NoJob
        /\ RefreshSelected(k.dir, k.rev, k.link.job, k.link.attempt)
     \/ UNCHANGED selection
  /\ Releases(c) /\ UNCHANGED package

\* The selection follows, if it may; an unreachable database leaves it.
FinishCompile(c) ==
  LET k == compiler[c] IN
  /\ k.pc = "written"
  /\ \/ /\ k.snapshot.doc \in OnePage /\ k.link.job # NoJob
        /\ RefreshSelected(k.dir, k.rev, k.link.job, k.link.attempt)
     \/ UNCHANGED selection
  /\ Releases(c) /\ UNCHANGED package

CompilerStep(c) ==
  \/ \E d \in Dirs : StartCompile(c, d)
  \/ CompileFails(c) \/ Promote(c)
  \/ WritePackage(c) \/ WriteFails(c) \/ FinishCompile(c)

\* The process dies: its requests are gone and the kernel drops their locks.
ReviewCrash ==
  /\ lock' = [d \in Dirs |-> Free]
  /\ compiler' = [c \in Compilers |-> IdleCompiler]
  /\ UNCHANGED package

\* A removal takes away a package, and with it the file of its lock, ...
PackageRemoved(d) ==
  /\ OfRun(d) \in pending
  /\ package' = [package EXCEPT ![d] = NoPackage]
  /\ lock' = [lock EXCEPT ![d] = Free]
  /\ UNCHANGED <<selection, compiler>>

\* ... and in the end all that was in the directories.
ReviewRemoved(gone) ==
  /\ package' = [d \in Dirs |-> IF OfRun(d) \in gone THEN NoPackage ELSE package[d]]
  /\ lock' = [d \in Dirs |-> IF OfRun(d) \in gone THEN Free ELSE lock[d]]
  /\ UNCHANGED compiler
=============================================================================
