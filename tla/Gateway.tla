------------------------------ MODULE Gateway ------------------------------
(***************************************************************************)
(* The admission gateway (scheduler/admission/gateway.go): one handler     *)
(* goroutine per POST /schedule and one drain loop, over the queue of      *)
(* WFQueue.  Whether BinPacker.Schedule finds room is the cluster's        *)
(* business: `room' moves by itself, as heartbeats and loads move the free *)
(* VRAM, and a request fits when its need is within it.  Schedule reserves *)
(* nothing, so a placement leaves `room' alone.                            *)
(***************************************************************************)
EXTENDS WFQueue

CONSTANTS Nobody,     \* no request in the drain loop's hand
          MaxRoom,    \* bound on the cluster's free room
          ClassOf,    \* classFor(req.Priority) of each request
          Need        \* the room each request asks for

Requests == Items

ASSUME ClassAssumption == ClassOf \in [Requests -> Classes]
ASSUME NeedAssumption  == Need \in [Requests -> Nat] /\ MaxRoom \in Nat
ASSUME NobodyAssumption == Nobody \notin Requests

VARIABLES room,       \* what the largest slice could take now
          phase,      \* where each request's handler stands
          cancelled,  \* pendingRequest.cancelled
          result,     \* a decision sits in pendingRequest.resultCh
          desired,    \* requests whose model was added to the desired state
          drain,      \* the drain loop: where it stands and what it holds
          dropped     \* history: requests whose readmission failed

cluster  == room
handlers == <<phase, cancelled, desired>>
vars     == <<cluster, handlers, queue, result, drain, dropped>>

Answered == {"accepted", "rejected", "timedout"}
Phases   == Answered \cup {"new", "placed", "missed", "waiting", "expired"}
DrainPC  == {"idle", "pass", "check", "try", "deliver", "readmit"}

Fits(r)  == Need[r] <= room     \* BinPacker.Schedule finds a slice

GInit ==
  /\ Init
  /\ room \in 0..MaxRoom
  /\ phase = [r \in Requests |-> "new"]
  /\ cancelled = [r \in Requests |-> FALSE]
  /\ result = [r \in Requests |-> FALSE]
  /\ desired = {}
  /\ drain = [pc |-> "idle", left |-> 0, hand |-> Nobody]
  /\ dropped = {}

-----------------------------------------------------------------------------
(* Heartbeats move the free VRAM the packer sees.                          *)
RoomChanges == /\ room' \in 0..MaxRoom
               /\ UNCHANGED <<handlers, queue, result, drain, dropped>>

-----------------------------------------------------------------------------
(* HandleSchedule, one goroutine per request.                              *)

Goto(r, p) == phase' = [phase EXCEPT ![r] = p]

\* The first attempt, before any queueing.
TryAtOnce(r) ==
  /\ phase[r] = "new"
  /\ Goto(r, IF Fits(r) THEN "placed" ELSE "missed")
  /\ UNCHANGED <<room, cancelled, desired, queue, result, drain, dropped>>

\* AddDesired, then 200.
Commit(r) ==
  /\ phase[r] = "placed"
  /\ desired' = desired \cup {r}
  /\ Goto(r, "accepted")
  /\ UNCHANGED <<room, cancelled, queue, result, drain, dropped>>

Enqueue(r) ==
  /\ phase[r] = "missed"
  /\ Admit(ClassOf[r], r)
  /\ Goto(r, "waiting")
  /\ UNCHANGED <<room, cancelled, desired, result, drain, dropped>>

\* ErrQueueFull: 429 at once.
Reject(r) ==
  /\ phase[r] = "missed"
  /\ ~HasRoom(buckets, ClassOf[r])
  /\ Goto(r, "rejected")
  /\ UNCHANGED <<room, cancelled, desired, queue, result, drain, dropped>>

\* The select takes the decision from resultCh.
Take(r) ==
  /\ phase[r] = "waiting" /\ result[r]
  /\ result' = [result EXCEPT ![r] = FALSE]
  /\ Goto(r, "placed")
  /\ UNCHANGED <<room, cancelled, desired, queue, drain, dropped>>

\* The select takes ctx.Done: the wait timed out or the client went away.  Go
\* picks at random when a decision is ready too.
Expire(r) ==
  /\ phase[r] = "waiting"
  /\ Goto(r, "expired")
  /\ UNCHANGED <<room, cancelled, desired, queue, result, drain, dropped>>

\* Only then is the request marked cancelled, and answered 429.
\* (_Withdraws: a handler that takes its request out of the queue as it leaves.)
GiveUp_Withdraws(r) ==
  /\ phase[r] = "expired"
  /\ buckets' = [buckets EXCEPT ![ClassOf[r]] = SelectSeq(@, LAMBDA x : x # r)]
  /\ cancelled' = [cancelled EXCEPT ![r] = TRUE]
  /\ Goto(r, "timedout")
  /\ UNCHANGED <<room, desired, cursor, result, drain, dropped>>
GiveUp(r) ==
  /\ phase[r] = "expired"
  /\ cancelled' = [cancelled EXCEPT ![r] = TRUE]
  /\ Goto(r, "timedout")
  /\ UNCHANGED <<room, desired, queue, result, drain, dropped>>

Handler(r) == \/ TryAtOnce(r) \/ Commit(r) \/ Enqueue(r) \/ Reject(r)
              \/ Take(r) \/ Expire(r) \/ GiveUp(r)

-----------------------------------------------------------------------------
(* DrainLoop and drainOnce.                                                *)

\* A tick: drainOnce starts with a snapshot of the queue's length.
BeginPass ==
  /\ drain.pc = "idle"
  /\ drain' = [drain EXCEPT !.pc = "pass", !.left = QueueLen(buckets)]
  /\ UNCHANGED <<cluster, handlers, queue, result, dropped>>

PassOver == drain.left = 0 \/ NothingReady(buckets, cursor)

EndPass ==
  /\ drain.pc = "pass" /\ PassOver
  /\ drain' = [drain EXCEPT !.pc = "idle", !.left = 0]
  /\ UNCHANGED <<cluster, handlers, queue, result, dropped>>

\* Queue.Next hands out the head of the bucket whose turn it is.
NextRequest ==
  /\ drain.pc = "pass" /\ ~PassOver
  /\ \E c \in Classes :
       /\ Serve(c)
       /\ drain' = [pc |-> "check", left |-> drain.left - 1, hand |-> Head(buckets[c])]
  /\ UNCHANGED <<cluster, handlers, result, dropped>>

CheckCancelled_Never ==              \* a slip: no check of the flag
  /\ drain.pc = "check"
  /\ drain' = [drain EXCEPT !.pc = "try"]
  /\ UNCHANGED <<cluster, handlers, queue, result, dropped>>
CheckCancelled ==
  /\ drain.pc = "check"
  /\ drain' = IF cancelled[drain.hand]
              THEN [drain EXCEPT !.pc = "pass", !.hand = Nobody]
              ELSE [drain EXCEPT !.pc = "try"]
  /\ UNCHANGED <<cluster, handlers, queue, result, dropped>>

Retry ==
  /\ drain.pc = "try"
  /\ drain' = [drain EXCEPT !.pc = IF Fits(drain.hand) THEN "deliver" ELSE "readmit"]
  /\ UNCHANGED <<cluster, handlers, queue, result, dropped>>

\* resultCh holds one decision; a send on a full channel would block.
Deliver_Commits ==                   \* a slip: the drain loop commits for the handler
  /\ drain.pc = "deliver" /\ ~result[drain.hand]
  /\ result' = [result EXCEPT ![drain.hand] = TRUE]
  /\ desired' = desired \cup {drain.hand}
  /\ drain' = [drain EXCEPT !.pc = "pass", !.hand = Nobody]
  /\ UNCHANGED <<cluster, phase, cancelled, queue, dropped>>
Deliver ==
  /\ drain.pc = "deliver" /\ ~result[drain.hand]
  /\ result' = [result EXCEPT ![drain.hand] = TRUE]
  /\ drain' = [drain EXCEPT !.pc = "pass", !.hand = Nobody]
  /\ UNCHANGED <<cluster, handlers, queue, dropped>>

\* Back of its own bucket, if that has room: Admit's error is discarded.
Readmit_Forgets ==                   \* a slip: a failed retry just continues
  /\ drain.pc = "readmit"
  /\ drain' = [drain EXCEPT !.pc = "pass", !.hand = Nobody]
  /\ UNCHANGED <<cluster, handlers, queue, result, dropped>>
Readmit ==
  /\ drain.pc = "readmit"
  /\ LET c == ClassOf[drain.hand] IN
       IF HasRoom(buckets, c)
       THEN Admit(c, drain.hand) /\ dropped' = dropped
       ELSE dropped' = dropped \cup {drain.hand} /\ UNCHANGED queue
  /\ drain' = [drain EXCEPT !.pc = "pass", !.hand = Nobody]
  /\ UNCHANGED <<cluster, handlers, result>>

Drain == BeginPass \/ EndPass \/ NextRequest \/ CheckCancelled \/ Retry \/ Deliver \/ Readmit

-----------------------------------------------------------------------------
GNext == RoomChanges \/ Drain \/ \E r \in Requests : Handler(r)

\* The ticker keeps the drain loop going, every handler that was called keeps
\* running, and a wait that nothing else ends is ended by its timer (gateway.go:76).
Fairness == /\ WF_vars(Drain)
            /\ \A r \in Requests : WF_vars(phase[r] # "new" /\ Handler(r))

GSpec == GInit /\ [][GNext]_vars /\ Fairness
-----------------------------------------------------------------------------
(* Where a request is while nobody has answered it.                        *)

InBucket(r, c) == {k \in 1..Len(buckets[c]) : buckets[c][k] = r}

\* The request's places: positions in the buckets, the drain loop's hand, its channel.
Custody(r) ==
  (UNION {{<<c, k>> : k \in InBucket(r, c)} : c \in Classes})
    \cup (IF drain.hand = r THEN {<<"hand", 0>>} ELSE {})
    \cup (IF result[r] THEN {<<"channel", 0>>} ELSE {})

-----------------------------------------------------------------------------
(* Properties.                                                             *)

\* Types, and the bucket bound (gateway.go:69, queue.go:51).
GTypeOK ==
  /\ TypeOK
  /\ room \in 0..MaxRoom
  /\ phase \in [Requests -> Phases]
  /\ cancelled \in [Requests -> BOOLEAN]
  /\ result \in [Requests -> BOOLEAN]
  /\ desired \subseteq Requests
  /\ drain \in [pc : DrainPC, left : Nat, hand : Requests \cup {Nobody}]
  /\ dropped \subseteq Requests

\* A request is never in two places: not twice in the queue, not queued while
\* the drain loop holds it, not queued or held once a decision was sent; so no
\* request is placed twice (gateway.go:118-135).
SingleCustody ==
  \A r \in Requests : \A p, q \in Custody(r) : p = q

\* A waiting request is somewhere the drain loop will find it, or its decision
\* is in its channel, unless its readmission failed (gateway.go:130).
WaitingIsHeld ==
  \A r \in Requests : phase[r] = "waiting" /\ r \notin dropped => Custody(r) # {}

\* The send on resultCh finds the buffer empty: a handler that went away never
\* blocks the drain loop, which serves all the others (gateway.go:69, 133).
DeliveryNeverBlocks ==
  drain.pc = "deliver" => ~result[drain.hand]

\* Next still has a request for every attempt the snapshot promised, though
\* handlers admit and give up meanwhile: the early return of gateway.go:122 is
\* never taken.
SnapshotHolds ==
  drain.left <= QueueLen(buckets)

\* A request refused with 429 is not desired state, and what is desired was
\* answered 200 or is about to be; every request gets its answer.
Service == INSTANCE AdmissionService WITH
  status <- [r \in Requests |->
               CASE phase[r] = "new"       -> "idle"
                 [] phase[r] = "accepted"  -> "accepted"
                 [] phase[r] \in {"rejected", "timedout"} -> "refused"
                 [] OTHER                  -> "pending"]
ImplementsService == Service!Spec

\* Requests whose clients left do not keep their places: the drain loop gets to
\* each of them and does not put it back, whatever its class and whatever the
\* other classes do, so they cannot hold a bucket full for ever (gateway.go:125).
CancelledLeaveTheQueue ==
  \A r \in Requests : cancelled[r] ~> [](InBucket(r, ClassOf[r]) = {})

-----------------------------------------------------------------------------
(* What the comments say and the code does not do.                         *)

\* "A capacity miss queues the request by WFQ class instead of dropping it;
\* DrainLoop retries placement as capacity frees" (gateway.go:25-27): while its
\* handler waits, a request is queued, in hand, or decided.
NoWaitingRequestLost ==
  \A r \in Requests : phase[r] = "waiting" => Custody(r) # {}
=============================================================================
