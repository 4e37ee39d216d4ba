------------------------- MODULE MCGenerationLibrary -------------------------
(***************************************************************************)
(* Instances of GenerationJobs and LocalLibrary for TLC, explored in one   *)
(* run, each while the other rests: the races of the pipeline, and those   *)
(* of uploads, confirmations and deletions over a directory.               *)
(***************************************************************************)
EXTENDS GenerationJobs, LibraryHistory, TLC

CONSTANTS a1, a2, u1, u2, u3, junk

VARIABLE part   \* "pipeline" or "library": constant in a behaviour

\* The processes of one kind run the same code, and so do requests.
ProcessSymmetry ==
  Permutations(Dispatcher) \cup Permutations(GenerationConsumer)
    \cup Permutations(CompletionConsumer)
    \cup Permutations(Deletion) \cup Permutations({u1, u3})

\* The image may be uploaded twice.
Target == (u1 :> a1) @@ (u2 :> a2) @@ (u3 :> a1)

\* Nothing looks into a thumbnail: one content stands for all.
OneThumbnail == files[ThumbnailKey(a2)] \in {None, junk}

LibraryRests == files = NoBytes /\ \A c \in Confirmation : confirm[c].asset = a1

MCInit == /\ Init /\ HistoryInit
          /\ \/ part = "pipeline" /\ LibraryRests
             \/ part = "library" /\ OneThumbnail
MCNext == /\ UNCHANGED part
          /\ \/ part = "pipeline" /\ Next /\ UNCHANGED historyVars
             \/ part = "library" /\ HistoryNext /\ UNCHANGED vars
MCSpec == MCInit /\ [][MCNext]_<<vars, historyVars, part>>
===============================================================================
