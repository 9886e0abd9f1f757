---------------------------- MODULE MCFrappeBridge ----------------------------
(***************************************************************************)
(* The two directions of the bridge share no rows, and neither do outbox   *)
(* rows of different keys.  A behaviour therefore has one scene: an event  *)
(* or a day of two punches, sent by two dispatchers; two pulls of one      *)
(* document; one pull of two documents; or two changes of a document, told *)
(* by webhooks, copied by two reconciliations and decided on in between.    *)
(***************************************************************************)
EXTENDS FrappeOutbox, FrappeInbox, TLC

CONSTANTS l1, l2, j1, j2

VARIABLE scene

MCInit ==
  /\ Init /\ InboxInit
  /\ scene \in {"event", "day", "pulls", "documents", "webhooks"}

OutboxNext ==
  \/ scene = "event" /\ \E e \in Events : EnqueueEvent(e)
  \/ scene = "day" /\ \E w \in Writers, p \in Punches : Punch(w, p)
  \/ Runs

PullNext ==
  \/ TickOn
  \/ ChangeDocument(l1)
  \/ scene = "documents" /\ clock = 0 /\ ChangeDocument(l2)
  \/ Pulls(j1) \/ DieInJob(j1)
  \/ scene = "pulls" /\ (Pulls(j2) \/ DieInJob(j2))

CopyNext ==
  \/ clock = 0 /\ (TickOn \/ ChangeDocument(l1))
  \/ clock = 1 /\ ChangeDocument(l1)
  \/ \E c \in Change : Webhook("event", c)
  \/ \E j \in Jobs : Reconciles(j) \/ DieInJob(j)
  \/ \E d \in Documents : \E k \in DOMAIN leave[d] : Decide(d, k)

MCNext ==
  /\ \/ scene \in {"event", "day"} /\ OutboxNext /\ UNCHANGED inboxVars
     \/ scene \in {"pulls", "documents"} /\ PullNext /\ UNCHANGED vars
     \/ scene = "webhooks" /\ CopyNext /\ UNCHANGED vars
  /\ UNCHANGED scene

MCSpec == MCInit /\ [][MCNext]_<<vars, inboxVars, scene>> /\ Fairness
=============================================================================
