------------------------------- MODULE Dialog -------------------------------
(***************************************************************************)
(* What a replayed connection promises the loop and the server, whatever    *)
(* the sockets do with the bytes: the frames go out in the order they are   *)
(* replayed, none behind a frame the server has not answered yet, and the   *)
(* connection is either ready for the next one or, in the end, gone.        *)
(***************************************************************************)
EXTENDS Naturals, Sequences

VARIABLES phase,   \* "none", "connecting", "idle", "busy" or "gone"
          frames,  \* the frames sent, by kind
          asked,   \* how many of them the server answers with ReadyForQuery
          ready    \* the number of ReadyForQuery the server has said

vars == <<phase, frames, asked, ready>>

Terminated == \E i \in DOMAIN frames : frames[i] = "term"

Init == phase = "none" /\ frames = <<>> /\ asked = 0 /\ ready = 0

Connect ==
  /\ phase = "none"
  /\ phase' = "connecting" /\ frames' = <<"startup">> /\ asked' = 1
  /\ UNCHANGED ready

Password ==
  /\ phase = "connecting" /\ ready = 0
  /\ frames' = Append(frames, "pass")
  /\ UNCHANGED <<phase, asked, ready>>

\* The server says ReadyForQuery, once for each frame that asks for it.
Serve ==
  /\ phase \in {"connecting", "busy"} /\ ready < asked
  /\ ready' = ready + 1
  /\ UNCHANGED <<phase, frames, asked>>

Answered ==
  /\ phase \in {"connecting", "busy"} /\ ready = asked
  /\ phase' = "idle"
  /\ UNCHANGED <<frames, asked, ready>>

Send(kind) ==
  /\ phase = "idle" /\ ~Terminated
  /\ frames' = Append(frames, kind)
  /\ phase' = IF kind = "block" THEN "busy" ELSE "idle"
  /\ asked' = IF kind = "block" THEN asked + 1 ELSE asked
  /\ UNCHANGED ready

Leave ==
  /\ phase # "gone"
  /\ phase' = "gone"
  /\ UNCHANGED <<frames, asked, ready>>

\* A server that has lost its client may still answer what it has been sent.
ServeLate ==
  /\ phase = "gone" /\ ready < asked
  /\ ready' = ready + 1
  /\ UNCHANGED <<phase, frames, asked>>

Next ==
  \/ Connect \/ Password \/ Serve \/ Answered \/ Leave \/ ServeLate
  \/ \E kind \in {"block", "plain", "term"} : Send(kind)

\* A connection that waits is served or gone in the end, and so is one that has
\* said Terminate.
Waiting == phase \in {"connecting", "busy"} \/ (phase = "idle" /\ Terminated)
Over == phase = "gone" \/ (phase = "idle" /\ ~Terminated)

WaitsEnd == Waiting ~> Over

Spec == Init /\ [][Next]_vars
=============================================================================
