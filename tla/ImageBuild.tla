------------------------------ MODULE ImageBuild ------------------------------
(***************************************************************************)
(* What an FTL build promises its user, whatever it caches and however it  *)
(* spreads its work: it delivers at most one image, a complete one, and    *)
(* reports success only if it delivered the image it was asked to.         *)
(***************************************************************************)
CONSTANTS
  Builds,            \* runs of an FTL binary
  Wanting,           \* those that are asked to push or save their image
  IsComplete(_, _),  \* IsComplete(b, i): i is the image b is meant to make
  NoImage

VARIABLES
  status,  \* "idle", "running", "succeeded" or "failed"
  image    \* the image delivered, or NoImage

vars == <<status, image>>

Init ==
  /\ status = [b \in Builds |-> "idle"]
  /\ image = [b \in Builds |-> NoImage]

Begin(b) ==
  /\ status[b] = "idle"
  /\ status' = [status EXCEPT ![b] = "running"]
  /\ UNCHANGED image

\* The image appears whole, in one step, and never changes again.
Deliver(b) ==
  /\ status[b] = "running" /\ b \in Wanting /\ image[b] = NoImage
  /\ image' = [image EXCEPT ![b] = image'[b]]
  /\ image'[b] # NoImage /\ IsComplete(b, image'[b])
  /\ UNCHANGED status

Succeed(b) ==
  /\ status[b] = "running"
  /\ b \in Wanting => image[b] # NoImage
  /\ status' = [status EXCEPT ![b] = "succeeded"]
  /\ UNCHANGED image

\* Also after the image was delivered, if the process is killed just then.
Fail(b) ==
  /\ status[b] = "running"
  /\ status' = [status EXCEPT ![b] = "failed"]
  /\ UNCHANGED image

Next == \E b \in Builds : Begin(b) \/ Deliver(b) \/ Succeed(b) \/ Fail(b)

Spec == Init /\ [][Next]_vars

===============================================================================
