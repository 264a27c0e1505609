------------------------------ MODULE HomeLoop ------------------------------
(***************************************************************************)
(* The cockpit's Home (shell.py): its loop on the main thread, the live    *)
(* capture on a background thread, the operator's keys and the views a key *)
(* opens.  A Home is the version of the world its capture read; every job  *)
(* the operator runs may move the world on.  The three modes are a worker  *)
(* without a saved Home ("plain"), one with it ("instant") and one that    *)
(* lets keys act while a capture runs ("actnow").                          *)
(***************************************************************************)
EXTENDS Naturals, Sequences

CONSTANTS Modes,        \* subset of {"plain", "instant", "actnow"}
          Keys,         \* the kinds of key the operator presses
          Provisional,  \* subset of BOOLEAN: is a Home of an earlier run saved?
          MaxKeys,      \* bound: keys pressed
          MaxBadCaptures   \* bound: captures that raise

ASSUME HomeAssumption == Modes \subseteq {"plain", "instant", "actnow"}

VARIABLES mode, home, key, queue, world, state, refresh, failed, last, dirty,
          painted, emitted, acted, pressed, failures

homeVars == <<mode, home, key, queue, world, state, refresh, failed, last, dirty,
              painted, emitted, acted, pressed, failures>>

\* A worker may claim any key: "claim" is one of its own, "grab" a cursor key, r
\* or ? it has claimed.
KeyKinds == {"move", "open", "claim", "grab", "r", "help", "q", "other"}

ASSUME KeysAssumption ==
  Keys \subseteq KeyKinds /\ Provisional \subseteq BOOLEAN /\ MaxKeys \in Nat /\ MaxBadCaptures \in Nat

HomeSteps == {"loading", "load_failed", "top", "paint", "wait", "pressed", "quit",
          "finish", "offer", "claimed", "drop", "nested", "recapture", "closed"}
Versions == 0 .. MaxKeys + 1
OtherPage == MaxKeys + 2        \* what is seen when the page is no Home
NoKey == [kind |-> "other", seen |-> OtherPage]
NoRefresh == [status |-> "none", at |-> 0, superseded |-> FALSE]

\* A capture begun now; what it reads is at least this version of the world.
Capture == [status |-> "running", at |-> world, superseded |-> FALSE]
Done == refresh.status \in {"ready", "raised"}
Instant == mode \in {"instant", "actnow"}

----------------------------------------------------------------------------
(* The background thread. *)

CaptureReads ==
  /\ refresh.status = "running"
  /\ \E v \in refresh.at .. world : refresh' = [refresh EXCEPT !.status = "ready", !.at = v]
  /\ UNCHANGED <<mode, home, key, queue, world, state, failed, last, dirty, painted, emitted,
                 acted, pressed, failures>>

CaptureRaises ==
  /\ refresh.status = "running" /\ failures < MaxBadCaptures
  /\ failures' = failures + 1
  /\ refresh' = [refresh EXCEPT !.status = "raised"]
  /\ UNCHANGED <<mode, home, key, queue, world, state, failed, last, dirty, painted, emitted,
                 acted, pressed>>

\* A finished capture is swapped in on the main thread, and one that something
\* acted after is followed by another.
Settle ==
  /\ Done
  /\ state' = IF refresh.status = "ready" THEN refresh.at ELSE state
  /\ last' = refresh.status
  /\ failed' = (refresh.status = "raised" /\ ~refresh.superseded)
  /\ refresh' = IF refresh.superseded THEN Capture ELSE NoRefresh

\* A bug to find: what was done meanwhile asks for no capture of its own.
Requested_Joins(w, supersede) == IF refresh = NoRefresh THEN [Capture EXCEPT !.at = w] ELSE refresh

\* A capture of the world w for what has just been done, or one to follow the
\* capture in flight.
Requested(w, supersede) ==
  IF refresh = NoRefresh THEN [Capture EXCEPT !.at = w]
  ELSE [refresh EXCEPT !.superseded = @ \/ supersede]

----------------------------------------------------------------------------
(* The operator. *)

PressHome(k) ==
  /\ home # "closed" /\ pressed < MaxKeys
  /\ pressed' = pressed + 1
  /\ queue' = Append(queue, [kind |-> k, seen |-> painted.at])
  /\ UNCHANGED <<mode, home, key, world, state, refresh, failed, last, dirty, painted, emitted,
                 acted, failures>>

----------------------------------------------------------------------------
(* Opening Home with nothing saved: the loading page. *)

LoadEnds ==
  /\ home = "loading" /\ Done
  /\ refresh' = NoRefresh /\ last' = refresh.status
  /\ IF refresh.status = "ready"
     THEN home' = "top" /\ state' = refresh.at /\ dirty' = TRUE
     ELSE home' = "load_failed" /\ UNCHANGED <<state, dirty>>
  /\ UNCHANGED <<mode, key, queue, world, failed, painted, emitted, acted, pressed, failures>>

LoadPolls ==
  /\ home = "loading" /\ queue # <<>>
  /\ queue' = Tail(queue)
  /\ home' = IF Head(queue).kind = "q" THEN "closed" ELSE home
  /\ UNCHANGED <<mode, key, world, state, refresh, failed, last, dirty, painted, emitted, acted,
                 pressed, failures>>

LoadAgain ==
  /\ home = "load_failed" /\ queue # <<>>
  /\ queue' = Tail(queue)
  /\ IF Head(queue).kind = "q" THEN home' = "closed" /\ UNCHANGED refresh
     ELSE home' = "loading" /\ refresh' = Capture
  /\ UNCHANGED <<mode, key, world, state, failed, last, dirty, painted, emitted, acted, pressed,
                 failures>>

----------------------------------------------------------------------------
(* The loop: swap in, repaint, wait. *)

SwapIn ==
  /\ home = "top" /\ Done /\ Settle
  /\ home' = "paint" /\ dirty' = TRUE
  /\ UNCHANGED <<mode, key, queue, world, painted, emitted, acted, pressed, failures>>

NothingToSwap ==
  /\ home = "top" /\ ~Done
  /\ home' = "paint"
  /\ UNCHANGED <<mode, key, queue, world, state, refresh, failed, last, dirty, painted, emitted,
                 acted, pressed, failures>>

Mark == IF refresh # NoRefresh THEN "refreshing" ELSE IF failed THEN "failed" ELSE "live"

\* The repaint waits until no more input is queued; only an unmarked Home
\* reaches the observer.
Paint ==
  /\ home = "paint" /\ dirty /\ queue = <<>>
  /\ painted' = [at |-> state, mark |-> Mark]
  /\ emitted' = IF Mark = "live" THEN [at |-> state, world |-> world] ELSE emitted
  /\ dirty' = FALSE /\ home' = "wait"
  /\ UNCHANGED <<mode, key, queue, world, state, refresh, failed, last, acted, pressed, failures>>

NoPaint ==
  /\ home = "paint" /\ ~(dirty /\ queue = <<>>)
  /\ home' = "wait"
  /\ UNCHANGED <<mode, key, queue, world, state, refresh, failed, last, dirty, painted, emitted,
                 acted, pressed, failures>>

\* A bug to find: the loop looks at the capture only when a key comes.
RefreshWakes_KeyOnly ==
  /\ home = "wait" /\ Done /\ queue # <<>>
  /\ home' = "top"
  /\ UNCHANGED <<mode, key, queue, world, state, refresh, failed, last, dirty, painted, emitted,
                 acted, pressed, failures>>

RefreshWakes ==
  /\ home = "wait" /\ Done
  /\ home' = "top"
  /\ UNCHANGED <<mode, key, queue, world, state, refresh, failed, last, dirty, painted, emitted,
                 acted, pressed, failures>>

\* Cursor keys, r and ? never wait for the capture in flight; any other key
\* does, unless the worker lets keys act during it.
Waits(k) == refresh # NoRefresh /\ mode # "actnow" /\ k \notin {"move", "grab", "r", "help"}

TakeKey ==
  /\ home = "wait" /\ queue # <<>>
  /\ key' = Head(queue) /\ queue' = Tail(queue)
  /\ home' = CASE Head(queue).kind = "q" -> "quit"
             [] Waits(Head(queue).kind) -> "finish"
             [] OTHER -> "offer"
  /\ painted' = IF home' = "quit" THEN [at |-> OtherPage, mark |-> "quit"] ELSE painted
  /\ UNCHANGED <<mode, world, state, refresh, failed, last, dirty, emitted, acted, pressed,
                 failures>>

AnswerQuit ==
  /\ home = "quit" /\ queue # <<>>
  /\ queue' = Tail(queue)
  /\ IF Head(queue).kind = "q" THEN home' = "closed" /\ UNCHANGED dirty
     ELSE home' = "top" /\ dirty' = TRUE
  /\ UNCHANGED <<mode, key, world, state, refresh, failed, last, painted, emitted, acted, pressed,
                 failures>>

----------------------------------------------------------------------------
(* What a key does. *)

FinishingShown ==
  /\ home = "finish" /\ refresh.status = "running" /\ painted.mark # "finishing"
  /\ painted' = [at |-> state, mark |-> "finishing"]
  /\ UNCHANGED <<mode, home, key, queue, world, state, refresh, failed, last, dirty, emitted, acted,
                 pressed, failures>>

\* The key waits for the capture in flight and for the one that follows it.
FinishRefresh ==
  /\ home = "finish" /\ Settle
  /\ IF refresh' = NoRefresh THEN home' = "offer" /\ dirty' = TRUE ELSE UNCHANGED <<home, dirty>>
  /\ UNCHANGED <<mode, key, queue, world, painted, emitted, acted, pressed, failures>>

\* before_action, then the worker's first refusal, then the shell's own dispatch.
Offer ==
  /\ home = "offer"
  /\ home' = CASE key.kind \in {"claim", "grab"} -> "claimed"
             [] key.kind \in {"open", "help"} -> "nested"
             [] key.kind = "r" -> (IF Instant THEN "top" ELSE "recapture")
             [] OTHER -> "top"
  /\ dirty' = (dirty \/ key.kind \in {"move", "r"})
  /\ IF key.kind = "r" /\ Instant
     THEN refresh' = Requested(world, FALSE) /\ failed' = FALSE
     ELSE UNCHANGED <<refresh, failed>>
  /\ painted' = IF home' = "nested" THEN [at |-> OtherPage, mark |-> "nested"] ELSE painted
  /\ acted' = IF key.kind \in {"open", "claim", "grab"} THEN [seen |-> key.seen, at |-> state] ELSE acted
  /\ UNCHANGED <<mode, key, queue, world, state, last, emitted, pressed, failures>>

\* A worker key ends: the Home it acted on is captured anew, in the background
\* or, after the capture in flight has been waited for and dropped, here.
ClaimedEnds ==
  /\ home = "claimed"
  /\ world' \in {world, world + 1}
  /\ IF mode = "actnow"
     THEN /\ refresh' = Requested(world', TRUE)
          /\ failed' = FALSE /\ dirty' = TRUE /\ home' = "top"
     ELSE /\ home' = IF refresh = NoRefresh THEN "recapture" ELSE "drop"
          /\ UNCHANGED <<refresh, failed, dirty>>
  /\ UNCHANGED <<mode, key, queue, state, last, painted, emitted, acted, pressed, failures>>

DropRefresh ==
  /\ home = "drop" /\ Done
  /\ refresh' = NoRefresh /\ failed' = FALSE
  /\ home' = "recapture"
  /\ UNCHANGED <<mode, key, queue, world, state, last, dirty, painted, emitted, acted, pressed,
                 failures>>

NestedReads ==
  /\ home = "nested" /\ queue # <<>>
  /\ queue' = Tail(queue)
  /\ UNCHANGED <<mode, home, key, world, state, refresh, failed, last, dirty, painted, emitted,
                 acted, pressed, failures>>

\* The view a key opened returns: an instant Home goes on at once and refreshes
\* behind, the plain one shows the Home it left and captures in place.
NestedEnds ==
  /\ home = "nested"
  /\ world' \in IF key.kind = "open" THEN {world, world + 1} ELSE {world}
  /\ IF Instant
     THEN /\ refresh' = Requested(world', TRUE)
          /\ failed' = FALSE /\ dirty' = TRUE /\ home' = "top" /\ UNCHANGED painted
     ELSE /\ painted' = [at |-> state, mark |-> "interim"]
          /\ home' = "recapture" /\ UNCHANGED <<refresh, failed, dirty>>
  /\ UNCHANGED <<mode, key, queue, state, last, emitted, acted, pressed, failures>>

\* The capture in place; keys typed meanwhile are discarded, except after a
\* worker key.
Recapture ==
  /\ home = "recapture"
  /\ state' = world /\ last' = "ready"
  /\ queue' = IF key.kind \in {"claim", "grab"} THEN queue ELSE <<>>
  /\ dirty' = TRUE /\ home' = "top"
  /\ UNCHANGED <<mode, key, world, refresh, failed, painted, emitted, acted, pressed, failures>>

RecaptureRaises ==
  /\ home = "recapture" /\ failures < MaxBadCaptures
  /\ failures' = failures + 1
  /\ home' = "closed"
  /\ UNCHANGED <<mode, key, queue, world, state, refresh, failed, last, dirty, painted, emitted,
                 acted, pressed>>

----------------------------------------------------------------------------
HomeInit ==
  /\ mode \in Modes
  /\ key = NoKey /\ queue = <<>> /\ world = 1
  /\ \E saved \in Provisional :
       IF mode = "plain"
       THEN home = "top" /\ refresh = NoRefresh /\ state = world /\ dirty = TRUE
       ELSE /\ home = IF saved THEN "top" ELSE "loading"
            /\ refresh = Capture /\ state = 0 /\ dirty = saved
  /\ failed = FALSE /\ last = "ready"
  /\ painted = [at |-> OtherPage, mark |-> "nested"]
  /\ emitted = [at |-> 1, world |-> 1]
  /\ acted = [seen |-> OtherPage, at |-> 0]
  /\ pressed = 0 /\ failures = 0

MainStep ==
  \/ LoadEnds \/ LoadPolls \/ LoadAgain
  \/ SwapIn \/ NothingToSwap \/ Paint \/ NoPaint \/ RefreshWakes \/ TakeKey \/ AnswerQuit
  \/ FinishingShown \/ FinishRefresh \/ Offer \/ ClaimedEnds \/ DropRefresh
  \/ NestedReads \/ NestedEnds \/ Recapture \/ RecaptureRaises

CaptureStep == CaptureReads \/ CaptureRaises

HomeNext == MainStep \/ CaptureStep \/ \E k \in Keys : PressHome(k)

HomeSpec == HomeInit /\ [][HomeNext]_homeVars

\* The main thread and the capture's thread run; a capture and a nested view
\* end.  Nothing makes the operator press a key.
HomeFairness == WF_homeVars(MainStep) /\ WF_homeVars(CaptureStep)

----------------------------------------------------------------------------
HomeTypeOK ==
  /\ mode \in Modes /\ home \in HomeSteps
  /\ key \in [kind : KeyKinds, seen : Versions \cup {OtherPage}]
  /\ queue \in Seq([kind : Keys, seen : Versions \cup {OtherPage}])
  /\ world \in Versions /\ state \in Versions
  /\ refresh \in [status : {"none", "running", "ready", "raised"}, at : Versions,
                  superseded : BOOLEAN]
  /\ failed \in BOOLEAN /\ last \in {"ready", "raised"} /\ dirty \in BOOLEAN
  /\ painted \in [at : Versions \cup {OtherPage},
                  mark : {"live", "refreshing", "failed", "finishing", "interim", "quit", "nested"}]
  /\ emitted \in [at : Versions, world : Versions]
  /\ acted \in [seen : Versions \cup {OtherPage}, at : Versions]
  /\ pressed \in 0 .. MaxKeys /\ failures \in 0 .. MaxBadCaptures

\* Only a live Home reaches the observer: what is emitted was captured after
\* everything the operator did before.
EmittedHomeIsLive == emitted.at = emitted.world

\* Unless the worker allows it, what a key opens or a worker's own key does never
\* runs beside a capture (the cursor keys, r and ? it may have claimed excepted),
\* nor do two captures run at once.
OneThreadAtATime ==
  mode = "instant" /\ refresh.status = "running" =>
     /\ home # "recapture"
     /\ home \in {"claimed", "nested"} => key.kind \notin {"open", "claim"}

\* Home never says more than it knows, nor does more than one thing at a time.
HomeSafe == EmittedHomeIsLive /\ OneThreadAtATime

\* A Home that acting keys may act upon acts upon the Home on screen.
KeyActsOnShownHome ==
  mode = "actnow" /\ acted.seen # OtherPage => acted.seen = acted.at

\* Home says it could not refresh only when its last capture did raise: refuted,
\* since a capture in place after a worker's key does not take the mark back.
FailedMarkIsTrue == home = "wait" /\ failed => last = "raised"

\* When the operator has stopped, Home comes to rest on the world as it is,
\* or says that it could not be read.
HomeSettles ==
  <>[](\/ home \in {"closed", "quit", "load_failed"}
       \/ painted.mark = "failed"
       \/ painted = [at |-> world, mark |-> "live"])
=============================================================================
