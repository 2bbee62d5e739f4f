----------------------------- MODULE EventFeed -----------------------------
(***************************************************************************)
(* The feed of provider events between the webhook endpoint and the job    *)
(* handlers: an event that was sent is worked on by one worker at a time,  *)
(* may be given up and taken again, and is never touched once it is done.  *)
(* WebhookGate implements it; Payments is a client of it.                  *)
(***************************************************************************)
CONSTANTS Events, Workers, NoEvent

VARIABLES
  sent,  \* events that were queued at least once
  done,  \* events whose processing is recorded as complete
  held   \* the event each worker works on

feedVars == <<sent, done, held>>

Init ==
  /\ sent = {} /\ done = {}
  /\ held = [w \in Workers |-> NoEvent]

Send(ev) ==
  /\ ev \in Events \ sent
  /\ sent' = sent \cup {ev}
  /\ UNCHANGED <<done, held>>

Take(w, ev) ==
  /\ held[w] = NoEvent
  /\ ev \in sent \ done
  /\ \A v \in Workers : held[v] # ev
  /\ held' = [held EXCEPT ![w] = ev]
  /\ UNCHANGED <<sent, done>>

GiveUp(w) ==
  /\ held[w] # NoEvent
  /\ held' = [held EXCEPT ![w] = NoEvent]
  /\ UNCHANGED <<sent, done>>

Finish(w) ==
  /\ held[w] # NoEvent
  /\ done' = done \cup {held[w]}
  /\ held' = [held EXCEPT ![w] = NoEvent]
  /\ UNCHANGED sent

Next ==
  \/ \E ev \in Events : Send(ev)
  \/ \E w \in Workers : \/ \E ev \in Events : Take(w, ev)
                        \/ GiveUp(w) \/ Finish(w)

Spec == Init /\ [][Next]_feedVars
=============================================================================
