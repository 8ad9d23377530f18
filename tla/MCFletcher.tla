---------------------------- MODULE MCFletcher ----------------------------
EXTENDS Fletcher, TLC

CONSTANTS client, p1, p2   \* a request of the queue, and two of a compiler

OneJob == {"posting"}
Texts == {"generated", "edited"}
ShortTexts == {"generated"}

QueueOperations == {"enqueue", "cancel", "move", "delete", "clear", "ready"}
ReviewOperations == {"clear", "save", "open", "compile"}
\* Bound of the run on reviews: in a directory that was to be removed no compilation
\* or edit begins; what was begun before goes on.
NothingBegunInCleared ==
  /\ \A c \in Compilers : compiler[c].pc = "idle" /\ compiler'[c].pc = "compiling" =>
                            OfRun(compiler'[c].dir) \notin cleared
  /\ \A d \in Dirs : OfRun(d) \in cleared /\ There(d) /\ package'[d].there =>
                        package'[d].state.docRev <= package[d].state.docRev
Compiles == Permutations({p1, p2})
=============================================================================
