----------------------------- MODULE MCHandlers -----------------------------
(***************************************************************************)
(* Parts of the extension's worker that share no state, in one run: a      *)
(* behaviour is one of one of them, and the others rest.                   *)
(***************************************************************************)
EXTENDS NetworkCapture, ConsoleCapture, Batch, FrameTree

CONSTANTS f1, n1, r1, r3

\* A number, and paths of one and two segments.
Selector == [by |-> "selector"]

MCSpecs ==
  {[by |-> "frameId", is |-> f1]}
  \cup {[by |-> "framePath", is |-> s] :
          s \in {<<Selector>>, <<Selector, Selector>>, <<[by |-> "name", is |-> n1]>>}}

VARIABLE part

BatchRests ==
  Called([actions |-> <<[method |-> "delay", tab |-> NoTab]>>,
          stop |-> FALSE, shots |-> FALSE, tab |-> NoTab])

Init ==
  /\ part \in {"network", "console", "batch", "frames"}
  /\ CaptureInit /\ ConsoleInit /\ FrameInit
  /\ IF part = "batch" THEN BatchInit ELSE BatchRests

\* One request may be redirected; a third is sent only where none was and no call has
\* waited.
Bounded ==
  /\ redirected' \subseteq {r1}
  /\ net'[r3] # "unsent" => redirected' = {} /\ \A w \in Waiter : outcome'[w].got = "nothing"

Next ==
  /\ UNCHANGED part
  /\ \/ part = "network" /\ CaptureNext /\ Bounded /\ UNCHANGED <<consoleVars, batchVars, frameVars>>
     \/ part = "console" /\ ConsoleNext /\ UNCHANGED <<captureVars, batchVars, frameVars>>
     \/ part = "batch"   /\ BatchNext   /\ UNCHANGED <<captureVars, consoleVars, frameVars>>
     \/ part = "frames"  /\ FrameNext   /\ UNCHANGED <<captureVars, consoleVars, batchVars>>

Spec ==
  /\ Init /\ [][Next]_<<part, captureVars, consoleVars, batchVars, frameVars>>
  /\ CaptureFairness /\ WF_batchVars(part = "batch" /\ Moves)

\* Every batch that runs ends, with one result per action that had its turn.
RunBatchEnds == part = "batch" ~> BatchOver
=============================================================================
