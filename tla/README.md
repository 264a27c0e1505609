# Clonway Cockpit: TLA+ models, checks and proofs

This directory is a verification development of `clonway_cockpit`
(`src/src/clonway_cockpit`), the framework behind a fleet of command-line
"workers": each worker is a terminal cockpit that can also be driven by an agent
over pipes, that publishes signals to a bucket for other workers to read, and
whose personas talk to each other and to an owner in chat.

`PROJECT.json` lists components, runs, theorems, hazards and, under `map`, the
source lines each definition stands for. Paths below are relative to
`src/src/clonway_cockpit` unless they start with `src/`.

## 1. Inventory

| Component | State it keeps | Operations | Hard behaviour | What makes it correct |
|---|---|---|---|---|
| **Signal bus, emission** `signals/emit.py`, `signals/bridge.py` | `latest.jsonl` and the dated archive of each worker, in a bucket | `emit_signals` (two uploads, errors swallowed), `failure_to_signal` | two uploads are not atomic; emissions of one worker overlap; run ids are reused inside one Cloud Run execution; midnight | archive objects appear once and stay; the snapshot is the open set |
| **Signal bus, subscription** `signals/subscribe.py` | a cursor per (consumer, worker): `FileCursorStore` / `GcsCursorStore` | `poll` (list, read, deliver or collect, save) | replicas share a cursor document; every access may fail; the poller may die; listing order is not emission order | at-least-once delivery; no duplicate without a fault; cursors converge |
| **Agent channel** `agent.py`, `approval_delivery.py` | two pipes, `key_mark` / `frames_written` in the app, the frame at hand in the client | `serve_stdio` and its reads and writes; `CockpitClient.press/apply/answer_*/snapshot/drain/quit` | two processes, each blocking on the other; timeouts leave frames behind; either end may die | no write without approval of that gate; nobody waits for ever; the audit tells the truth |
| **Write gate** `walk.py` (`confirm_apply`), `approval.py` | token counter, the policy's apply count | gate by human, by token, by policy, pure dry run | stale approvals, a cap at either end | each write offered, approved, decided once, posted at most once |
| **Conversational operator** `conversation.py` | the frames of one drive | `Conversation.handle`, `_drive_argv`, `_narrate` | the worker may hang, exit, or show a gate late | what it tells the operator is what happened; it always ends |
| **Handoff negotiation** `negotiation.py`, `handoff.py`, `group_chat.py` | `TaskLedger` per space, the round's FIFO queue and turn cap | `respond`, `_negotiate`, `feed`, `_sweep`, `run_round` | several personas answer one task, redirects, duplicated and forged envelopes, plan and stall exactly once | first terminal answer wins; a plan is posted once, when resolved |
| **Reflex rules** `reflex.py` | seen-log (memory and note), policy counter | `fire_reflexes` | crash between running and marking; redelivery; two rules for one ask | an applied reflex is not applied again; it is reported truly |
| **Chat transport** `chat_transport.py`, `chat_addon.py` | handled ids, a re-entrant lock, background threads | `handle_event`, the WSGI app | redelivery, concurrency, acknowledgement before the work | each message handled once, and not lost |
| **Thread and private memory** `chat_memory.py`, `private_memory.py`, `shared_memory.py` | turn files, the rolling summary with its folded-through mark | `record`, `forget`, sweep, compaction, `remembering_responder` | a pair of turns takes two critical sections; failure between; a crash inside compaction | no turn lost or replayed twice, pairs stay paired |
| **Audit log** `audit_log.py` | the local file, the mirror's buffer | append, flush | the mirror object is overwritten whole, by every process of an execution | no event missing from the mirror |
| **Observability** `obs/` | run sessions, event buffers, run log | `run_session`, `event_buffer`, isolation, flush, atomic append | nesting and joining; exit during a flush | an uploaded object is one run, whole |
| **Shell** `shell.py`, `shellout.py`, `state.py`, `usage.py` | the Home model and its captures, the cursor, the back stack, the key at hand | home loop, background refresh, menus, filter, launch | a capture that lands after what it should have seen; keys typed ahead; a cursor kept as a number while rows change; a walk that raises | Home never shows an old capture as live; one thing runs at a time; a view gives its frame back |
| **Keyboard and viewport** `keys.py`, `viewport.py` | raw-mode session, pending input, scroll offset | read, discard, `raw_mode`, `cooked_mode`, update, scroll, draw | type-ahead reaching a gate; sessions that nest and are killed; a resize inside a draw | a key answers only the screen it was pressed on; the terminal is given back; a frame is of one page and one size |
| **Doctor** `doctor.py`, `shell.py` | the report with the identities of its probes and fixes, cursor, focus, receipts | report, choose, run a fix, rebuild | rows are rebuilt under the cursor; a report that raises | the fix that runs is the one chosen; a receipt tells what the probes say |
| **Model gateway** `gateway/` | none beyond a call | complete, retry, telemetry | failing providers | one result, one telemetry record |
| **Google credentials** `google_auth/` | the token store | resolve, refresh under a lock file, write back | several processes find the token expired; a call fails or a process dies under the lock | refreshed only when due, no newer token overwritten |
| **Pure functions** `signals/model.py`, `rank.py`, `factory.py`, `horizon.py`, `uk_calendar.py` | none | rank, working days | boundaries of dates | agree with a reference |
| **Rendering** `render*.py`, `model.py` | none | what is drawn where | none of its own | the cursor is drawn, in both renderings, where it is |
| **Personas and prompts, mail, sheets, configuration** | none | text and I/O | none | not modelled |

How they interact: the shell launches walks; a walk ends in the write gate; in
agent mode the gate's authorizer and every prompt read the channel's pipe, whose
other end is a `CockpitClient`, driven by a test, a script or the conversational
operator. Gates and approvals are written to the audit log. Workers emit signals
and poll each other's; a failed handoff in a negotiated space is turned into a
signal by the bridge. Chat events reach personas through the transport, whose
responder layers memory and negotiation, which may fire reflexes.

`PROJECT.json` `hazards` lists what is hard to test, at the line where it bites.

## 2. Plan

In order of importance; everything is done but for what 7 leaves.

1. `SignalBus`, abstract `AtLeastOnceTopic`, with proofs.
2. `AgentChannel`, abstract `GuardedWrite`, with proofs; `ConversationDrive` on
   top of it.
3. `TaskLedger` and `Negotiation` with the reflexes, abstract `AskSettlement`,
   with proofs.
4. `ThreadMemory` and `ChatDelivery`: acknowledged events, the deduplicating
   lock, the transcript and its compaction.
5. `Keyboard`, `TerminalWalk`, `RawSession`, `Viewport`: the human's end of a walk.
6. `HomeLoop`, `HomeCursor`, `DoctorLoop`, and the services of the process:
   `AuditMirror`, `RunTelemetry`, `TokenRefresh`; composed in `MCCockpit`.
7. `ChatProofs` for 4, `TerminalProofs` and `ServiceProofs` for 5 and 6,
   `CockpitProofs` for their composition. Left: a measure for `ConversationEnds`;
   shared memory, the
   receipts and usage of the shell, the other views of `render_panels.py`; the
   ranking and the calendar as operators against a reference.

## 3. Modules

### SignalBus

One action per access to shared storage. `emit_signals` is `Begin`, then
`UploadLatest`, then `UploadArchive` (absent when there are no signals); an upload
that raises is swallowed and ends the emission (`UploadFails`). `BridgeFailure` is
`failure_to_signal`: an emission whose body is the one anomaly. `poll` is one
record per replica: `StartPoll`, then for each worker (a fixed order the code
takes from the subscription, or the bucket's prefixes; any order here)
`LoadCursor`, `ListArchive`, then for each object in (date, run id) order
`ReadObject`, per line `SkipLine` or `Deliver`, and `SaveReads`, `SaveWrites`.
Each of these has its failure as the code handles it: a load error starts from no
cursor, a list or read error leaves the worker, a callback that raises leaves the
object undone, a failed save is logged and *the in-memory cursor keeps the
object*. `Crash` is the death of the poller.

| Variable | In the code |
|---|---|
| `latest`, `archive` | the bucket's objects |
| `cursor` | what the cursor store holds, decoded: date and processed run ids |
| `poll[p]` | locals of `poll()`: the workers left, the listing left, line, `active_date`/`processed` (`mem`), the document read for a file or GCS save (`snap`), the deliveries collected |
| `inflight`, `today` | emissions between their uploads, with their `now`; the UTC date |
| `named`, `published`, `handled`, `redelivered`, `unsaved` | history |

Modes are constants: `GcsStore`, `Discover`, `Callback`. Two constants state what
the world grants: `FreshRuns` (no two emissions of a worker share a run id, false
in one Cloud Run execution) and `SameDay` (an emission is over before its date
is).

Abstracted: a listing is read at one instant; a failed client construction or
worker discovery is a stutter, since nothing has been done; the flag that turns
emission off; the legacy cursor format, which decodes to a cursor; the GCS save
errors that are silently given up (`SaveConflicts` covers a refused precondition)
have the same effect on the state as the logged ones.

### AtLeastOnceTopic

What a consumer may rely on: messages are offered, taken, acknowledged, and what
is acknowledged has been taken. `SignalBus!ImplementsTopic` maps the wanted
signals of the archive to offered, those under the stored cursor to
acknowledged.

### AgentChannel

The app and the client as two processes over two FIFO sequences. `app.pc` is
where the app is: running (between two reads it may draw, ask, open a gate, read
a key or end, in any order: that is the worker's code) or blocked in one of the
reads of `serve_stdio`. `app.silent` is `key_mark == frames_written`: a key that
drew nothing is answered with the screen again before the next read. `app.owed`
is the shape of `run_walk` and the shell, which draw a screen after a prompt or a
gate. `TakeKey`, `TakeOther`, `TakeGate`, `TakeInput`, `TakeConfirm`,
`TakeDryGate` are the reads with their treatment of messages that are *not* what
the read wants: `read_key` answers them and reads on, `authorize_apply` declines,
`agent_input` raises, `agent_confirm` takes them as a no.

The client has one call at a time, as the code has. A frame stands for its kind
and, for a gate, its token. `client.view` is the last frame returned;
`client.kept` are the gates it can make an `ApprovalRequest` of, i.e. every gate
frame it was returned, and `ApplyCall` applies one of them at its gate or at any time
after, since neither `apply` nor `apply_approval_request` looks at the frame at hand.
`Receive` also audits the outcome of an apply, from whatever frame came next, as
`apply_approval_request` does. `Drain` may stop before the last frame, so the
client may be frames behind. `CloseWait` is a timeout or the end of the stream;
after it the client only quits. `Kill` is `quit`'s escalation; `Vanish` the death
of the driving process, after which the app reads the end of its input once what
was sent is read. The human's `approve()` is one step with the message it sends.

`gateMode` is what `confirm_apply` finds: nothing (`dryRun`), the token handshake,
or a policy; `approver` is what `approve` is at the client. They are the
deployment, drawn from the constant `Deployments` at the start and kept.

### GuardedWrite

Per token: offered, approved, applied or declined once, posted at most once after
it was applied. `ImplementsGuardedWrite` is the refinement.

### ConversationDrive

Extends the channel: `Conversation.handle` and `_drive_argv` decide which of the
client's calls is made. The first frame that answers a key is looked at, `drain`
collects the rest; a timeout or broken pipe ends the drive; what is told is
counted from the frames collected.

### TaskLedger and Negotiation

`TaskLedger` is the class of that name: what a negotiated space knows, built only
from messages fed to it. Its variables are its fields: `initiator` and `asked`
(the state and decider of each ask of each task), `planned`, `stalled`,
`duplicates`, `failures`. `Feed` is `feed` with its branches: an owner's message
or prose is nothing, a frame whose origin is not its author is inert (a forged
response to a known task is a failure), a notice makes its task known once, a
response counts ask by ask (`Counts`: an open ask, if it was not redirected to
somebody else), a plan marks its task planned. `PlanWorthy`, `Unresolved`,
`ComposePlan` and `ConsumeFailures` are the queries of the sweep.

`Negotiation` extends it with the room, one thread of control whose position is
`phase`:

| Phase | In the code | Actions |
|---|---|---|
| `idle` | no call | `PostNotice`, `OwnerSays`; `RedeliverPlan`, `EchoNotice`, `ForgeResponse`: frames that come from outside |
| `hear` | `run_round`: the head of the queue, persona by persona in registry order | `Overhear` (not addressed, or past the cap), `Converse` (ordinary chat), `RecordQuietly` (a note, no reply), `Ignore` (forged, or nothing to do with me, or no voice), `Take` (a notice to me, or asks redirected to me), `EndOfRound` |
| `rules` | `fire_reflexes`, rule by rule | `PassOver`, `ReportSeen`, `RunReflex`, `AllRulesTried` |
| `mark` | between the executor's return and `note_applied` | `MarkReflex` |
| `answer` | the rest of `_negotiate` | `NoteWithoutAsks`, `ModelDown`, `AnswerAsks` |
| `feed`, `plan`, `stall` | `_sweep` | `FeedNext`, `AllFed`; `SweepPlans`, `AllPlanned`; `SweepStalls`, `EndOfSweep` |

`queue`, `ear`, `turns` and `posted` are the locals of `run_round`; `job` is the
notice being answered with the asks its rules have covered; `marked` and `kept` are
the reflex log in memory and on disk; `applied` is the policy's count; `noted` the
working notes, `plans` the plans in the room. `ran`, `said`, `told`, `plansPosted`,
`stallsPosted` are history, and so is the job's `misread`: the keys whose note is on
disk and could not be read for this answer. A look-up of a note (`Seen`) is
best-effort: both of an answer, the rule's and the policy's, may miss one that is
there. Notes are found by name (`NoteName`, `HasNote`), which is a slug cut short,
so that the note of one capability may speak for another's. A write or a call that
raises (a member of `Faults`) leaves the round with nothing undone (`Abort`): what
was run, marked or noted before stays, the sweep does not happen, and the messages
of that round are never fed. `Restart` may come at any point, between the reflex and
its mark too, and keeps only what is on disk or in the room.

Abstracted: rendering and parsing are the envelope, and the set of personas its
text addresses (`heard`); `_reconcile` is the set of decisions it can return
(`ModelDecisions`); a prompt's words; the thread transcript's own failures, beyond
that recording may raise; the audit sink of the reflexes, which swallows its
errors; asks of a notice are distinct texts. A failure callback is always
registered and every reflex log has a durable side, as negotiated spaces are
built.

### AskSettlement

Each ask settled at most once, by anybody while it is pending, as in the code, and
by the colleague it was handed on to once it was redirected; one plan of a task at
most, when nothing of it is open; one call on the owner at most, while something is.
`ImplementsSettlement` is the refinement.

### ThreadMemory and ChatDelivery

`ThreadMemory` is one transcript as a value: its turn files, the rolling summary
and the index it goes through. `Recorded` is what `record` leaves (the turn, the
sweep of what an earlier deletion left behind, the compaction), `HalfRecorded`
everything it may leave when a write or a deletion raises half way. They are sets
of values, so that `ChatDelivery` can take each record as one step: the private
memory's lock makes it one for the other threads. A record reads through *views* of
the files (`Views`), one for the index, one for the sweep, one more if the sweep
deleted something, and the summary once again for the fold (`Summaries`); in a view
a file that cannot be read is as if it were not there. So a fold may put the new
lines in the place of a summary it could not read, and `NextIndex` may give an index
again, whose turn is overwritten.

`ChatDelivery` extends it with the add-on's threads. `thread[t].at` is where a
handling is: acknowledged and about to enter the router (`enter`), routing
(`route`), reading the thread's summary and then its turns (`read`), asking the
model (`model`), recording the user's turn and the persona's (`user`, `persona`),
withdrawing the first when the second failed (`undo`), posting (`post`). A message
without text (`blank`) leaves no user turn (`RecordNothing`) and its reply is
recorded all the same. The withdrawal may find its turn folded or forgotten, or
raise (`UndoUser`). `misread` are the personas whose thread has had a record that
could not read a file, since it was last forgotten. `lock` is the router's: held
from the check for a duplicate to the mark, if the event has a name, as
`handle_event` does. `seen` and `seenFile` are the handled names in memory and on
disk. Each call out may raise (`Faults`), the process may die (`Crash`) between any
two steps, and a thread may be forgotten.

Abstracted: a turn's text is the event it answers; a line is a turn's worth of
the summary; the summary's cap counts lines; HTTP and the post's body. The two reads
of a context see every file: what `recent` leaves out because it cannot be read is
missing from one prompt, and nothing else.

### The operator's terminal

`Keyboard` has the bytes as values: a terminal is the kernel's queue and the one
byte `read_key` may have pushed back, a press is known by its byte and the page
on screen when it was typed. `ReadKey` takes one token with the code's treatment
of continuation bytes, Alt-chords and escape sequences; `Discarded` is
`discard_pending`, which empties the queue and not the byte pushed back.

`TerminalWalk` is `run_walk` over it: the steps of a walk (animated, awaiting,
applied), the pre-flight and its remedy, the review page, `discard_pending`, the
gate's read. `applied` remembers for each write the page its key was typed on.

`RawSession` is `raw_mode`, `cooked_mode` and the SIGTERM handler: the contexts
open, the recorded session, the depth of cooked windows, and the mode the
terminal is really in. The outermost session's enter and exit are three steps
each, so that a signal may come between them.

`Viewport` is `update`, `scroll` and `_draw`, with a signal handler that may
interrupt the main thread between any two of its steps: `drawing` is where the
draw is, `drawer` who does it, `_dirty` is `again`. A page is its number of lines,
its masked header and its cursor line; `Drawn` computes the frame with the pins,
the clamping and the note.

### Home

`HomeLoop` is the loop of `run_shell` with the capture's thread, in each of the
three modes a worker may declare. A Home is the version of the world it was
captured from. `home` is where the main thread is (`loading`, `top`, `paint`,
`wait`, ..., `recapture`), `refresh` the capture in flight with whether something
has acted since (`superseded`), `painted` what is on screen with its mark,
`emitted` what the observer was last given, `acted` what the last acting key saw
and what it acted on.

`HomeCursor` leaves the captures' timing out (one may land whenever Home is
shown) and has the rows: `Selectables` in the order of `selectables()`, the two
columns of pulse and toolkit (`Lines`) with `MoveHorizontal`, the menu of a shelf,
the filter, and the frames that views push and pop on the back stack. What is
drawn is modelled by the cells: `CellsOf` for the terminal, `ModelRows` for the
model an agent reads.

`DoctorLoop` is the interactive Doctor: any report may follow any other, rows move,
vanish, double or lose their fix; `sel`, `pending`, `explicit` and `anchor` are
the loop's locals, `ran` and `receipts` what it did and what it says of it. A rebuild
returns a report, if need be one of the failure; that it raises itself after a fix
(`shell.py:1738`), which ends the Doctor without a receipt, is not modelled.

### The services of the process

`AuditMirror`: the sink from several threads, step by step: read-and-replace under
the lock, whose read may fail and is then taken for an empty file (`LockAndMisread`;
`atomicio.py:58` says so of a missing target, line 63 does it for any `OSError`), so
that the replace drops the lines before (`written` has them all, `base` counts those
dropped), the event remembered, the count read and written back, a flush object by
object, the one at exit while daemon threads still run, a crash. `RunTelemetry`:
buffers, sessions and isolation as the scopes open in one context, each remembering
what it replaced, and the object each session uploads. `TokenRefresh`:
`resolve_credentials` in several processes, the lock file with its timeout, the
reload, the refresh and the write-back, each of which may fail, and processes that
die. An access token is its serial number.

### MC modules

`MCSignalBus`, `MCAgentChannel`, `MCConversationDrive`, `MCNegotiation`,
`MCChatDelivery` give values to constants. `MCCockpit` puts nine components of one
process side by side: they share no state in the code either, so each behaviour
runs one of them (`active_component`) and leaves the others as they start. It
says nothing about their interleaving, and needs nothing said.

### Proof modules

`SignalBusDeliveryProofs`, `AgentGateProofs` (the channel, and the conversational
operator with it), `NegotiationProofs`, `NegotiationTruthProofs`, `ChatProofs`
(chat and thread memory), `TerminalProofs` (walk, session, Home, Doctor, viewport,
cursor), `ServiceProofs` (audit, tokens, run objects) and `CockpitProofs` (those nine
composed): section 5.

## 4. Runs

| Run | Question | Result |
|---|---|---|
| `bus_live` | two racing replicas on one cursor document, with emissions and a fault anywhere: does the bus refine the topic, is every line handed over, do the saves settle on the whole archive | pass |
| `bus_file` | lone consumer, file store, discovered workers, filters: nothing lost, no duplicate without a fault, the stored cursor never goes back | pass |
| `bus_late` | an emission that straddles midnight | `NothingLost` violated |
| `agent` | every deployment: a human approves over the token handshake, a policy decides in the app or at the driver, or nobody does, in a dry run; the client may be behind, apply a gate it has left, or go away | pass |
| `drive` | the operator's narration, its denials, its end | pass |
| `drive_routes` | is each gate that is seen put to the approver | `EverySeenGateRouted` violated |
| `negotiate` | a room of three negotiates a task: redirects, reused ids, forged and redelivered frames, two capabilities of one note name, a failure at every write and every look-up of a note, a restart; that each step of a call leaves less of it to do, and it ends | pass |
| `chat` | two threads handle events, one without text, and their redeliveries; every call out fails, files cannot be read, the process dies, threads are forgotten: transcript, pairs, duplicates, what the model is shown, that each step leaves less to do, the end of each handling | pass |
| `chat_dropped` | is an acknowledged event handled in the end | `NeverDropped` violated |
| `cockpit` | nine components of the operator's process, each alone: what Home shows and emits, where its cursor is, which key confirms a write, the terminal's mode, the frame, the Doctor, the audit file and mirror, run objects, tokens; and that Home and the resolvers settle | pass |
| `gate_pushback` | the same walk when a character may come cut short | `AppliedByAKeySeen` violated |
| `home_unseen` | does a key act on the Home that was on screen when it was pressed | `KeyActsOnShownHome` violated |

The violations are disagreements of code and documentation; `findings` quotes the
lines. They hold against the documents, not against the invariants the code
itself maintains: under `FreshRuns` and `SameDay` delivery is proved, and so is
the gate when characters come whole.

### Stated and in no run

Some properties are stated in the modules and checked by none of the runs above,
either because the code does not have them, or because they hold only in another
configuration. Each can be checked by adding it to a copy of the configuration
named.

| Property | Module, configuration | Result |
|---|---|---|
| `NothingLostBetweenPolls` | `SignalBus`, `bus_file` with `Callback = FALSE` and every fault but a crash (`NoCrash`) | holds; with crashes it is violated, by a death between the save of an object and the return of its deliveries |
| `ArchiveAppendOnly` | `SignalBus`, `bus_file`; with `FreshRuns = FALSE` | holds; violated: the later emission replaces the object |
| `FailedSaveRedelivers` | `SignalBus`, a fault kind of failed saves only | violated: the in-memory cursor keeps the object and the next save covers it |
| `TypeOK` (twice), `RoundIsCapped` | `SignalBus`, `bus_live`; `AgentChannel`, `agent`; `Negotiation`, `negotiate` | hold, and are proved: `TypeCorrect`, `ChannelTypeCorrect`, `RoundAlwaysCapped` |
| `DriveTypeOK`, `ChatTypeOK` | `ConversationDrive`, `drive`; `ChatDelivery`, `chat` | hold |
| `ResolvedTruly` of every request | `AgentChannel`, `agent`; the property without its restriction to requests applied at their gate (`x[3]`) | violated: a request applied once the view has moved on is audited with the status of the next frame, which may be another gate's `declined` (`approval_delivery.py:130`) |
| `TranscriptIsConversation` of every thread | `ChatDelivery`, `chat`; the property without `\ misread` | violated: a record that cannot read the summary or the newest turn loses lines (`chat_memory.py:256`, `211`) |
| `PairsUnlessCut` of every thread | `ChatDelivery`, `chat` with `MaxTroubles = 2`; the same | violated: a user turn given an index in use is withdrawn, and another's with it |
| `FailedMarkIsTrue` | `HomeLoop`, `cockpit` | violated: after a capture that raised, a worker's own key captures in place (`shell.py:696`) and `refresh_failed` is cleared only when a capture was in flight (`shell.py:689-695`), so a Home just read is painted "couldn't refresh"; `shell.py:534-536` says the flag "records that the last one raised" |
| `PairsStayPaired` | `ChatDelivery`, `chat` | violated: a failure between the two turns whose rollback fails too, or a crash there |
| `ResizeIsDrawn` | `Viewport`, `cockpit` | violated: a resize between the last test of `_dirty` (`viewport.py:142`) and the end of the draw is drawn with the next update only |
| `FilterCursorIsDrawn` | `HomeCursor`, `cockpit` | violated: the filter draws its first nine matches (`render_panels.py:833`), the cursor goes past them, and Enter opens what is not drawn |

### Bounds

*Bus*: two emissions and two run ids, so that a later emission may sort before an
earlier one, under the same or a newer date; two dates; two replicas where they
race; one or two faults, placed anywhere; one line per object where the lines do not
matter, and lines that fail each filter in `bus_file`. A third replica or date adds
no new pair of accesses: a save conflicts with one other save, and a cursor compares
two dates. `bus_live` has one date, since with no bound on polling the race is in
the run ids of a date.

*Channel*: two gates, so that one's approval may meet the other, and so that a
cap of one refuses the second; two draws besides the answers to keys, so that the
client may be two frames behind; three calls, so that a request is kept, its gate left
and the request applied at the next one (four calls, 7.5 million states, were checked
too and show nothing else); a capability of each kind the policy
tells apart. *Drive*: three keys, two gates, four draws.
`MaxDraws` also bounds `drain()`: that an animated worker may hold it for ever is
a hazard the bound hides, and is listed as such.

*Negotiation*: one task, since tasks meet only in the turn cap and in the policy's
count; two asks, so that one may be settled by a reflex or accepted while the other
is redirected; three personas, so that a redirect has a third party to go to or to
be claimed by; a cap of three turns, which a redirect chain reaches; two calls, so
that a notice is retried after a failure, redelivered, or its id reused; three
capabilities, one of them listed and one of the others with its note's name; one
restart, at any step; each kind of fault, any number of times. `PostedBound`, which
guards the replies of ordinary chat to keep the room finite, stops none of them:
`BoundStopsNobody`, proved, says a round is short of it whenever one may be made.
The proofs cover every other size.

*Chat*: two threads, since the lock is between two; two personas in one space;
transcripts of three turns compacted to two with a summary of two lines, so that a
compaction, a full summary and a sweep come after three turns; an operator's
question to one persona in the space, an operator's direct message without text that
a worker's matcher gives to one of them, and an outsider's message without a name
(nothing to recognise a redelivery by), in any order, redelivered, up to three
deliveries in all; one fault, crash or forget at any step; a view that misses files
misses one turn at most (`MaxUnread`), the summary, or both. An event that is no
message is in `chat_dropped` only, as it ends at the edge.

*Cockpit*: Home takes two keys in any mode, which is what it takes to act during a
capture and on its result, and one capture that raises; layouts without rows, with
an odd and an even column, with rows of the worker's, with a roster of one letter;
walks with and without an animated step, one with two writes; four presses, enough
for one of every kind to be typed ahead of a gate; five nested contexts; pages
shorter, as tall and taller than the terminal, with the cursor in the pins and in
the body; three draws; five reports, among them a doubled probe and a display-only
fix; two threads, two objects and two events for the audit, two
of whose reads, writes and uploads fail (three events, 557069 states of that component
alone, were checked too); two resolvers and three
declarations of what a token may carry.

`CHECK_DEADLOCK FALSE` is used for all but the bus: there the processes end, or
the bounded inputs run out. The bus runs check deadlock: a poller always has a
step.

### Fairness

`FairSpec` (bus): each replica's `PollStep` is weakly fair: pollers are scheduled
for ever by cron or a loop, and the conditions of their steps do not go away.
Emissions, the passing of days and faults are under no obligation. `FairDriveSpec`:
the driver's own steps are weakly fair, since its waits have timeouts and its
thread is scheduled; the worker may hang in any state, so no fairness on it.
`FairSpec` (negotiation): `RoundStep \/ SweepStep` is weakly fair, as one thread
runs the round and the sweep to their end; calls and restarts are under no
obligation. `FairSpec` (chat): each handling thread, since every call out of it
has a timeout; deliveries, crashes and forgets are under no obligation.
`HomeFairness`: the main thread and the capture's thread; a capture and a nested
view end, as both are calls that return; no key is ever owed. `TokenFairness`:
each resolving process, whose wait for the lock ends with the lock or with the
timeout. `MCCockpit` restates the last two for the component that runs. Nothing
else of the cockpit has fairness, as nothing else of it has a liveness property.

## 5. Proofs

All with TLAPS, for every value of the constants within their assumptions.

* `SignalBusDeliveryProofs`: `TypeCorrect`, with no further assumption;
  `CursorsAlwaysSafe`, `AtLeastOnce`, `BusImplementsTopic`, assuming `FreshRuns`,
  `SameDay` and `Callback` (each of the first two is needed: `bus_late` and
  `ArchiveAppendOnly` show the behaviour without it). `NothingLost` alone is not
  inductive: a cursor on its way to the store must be as safe as the stored one, and
  a replica's listing may lack objects uploaded since. `CursorsSafe` says that each
  cursor, stored (`SafeCursor`), in memory (`mem`) or in a document about to be
  written back (`snap`), covers only what was handed over, and names no run that can
  still be uploaded; and that what a listing lacks is not older than what it has
  left (`ListedInv`). For a lone consumer (`Lone`), `LoneCursorAdvances`: the stored
  cursor only advances, assuming `StoreIsRead`: a poll's load never fails, nor the
  file store's read within a save, as both take a failed read for an empty store.
  `AheadInv` says that what the poller works with is never behind what is stored.
  `NoDuplicateWithoutFault`, with either store: `OnceInv` says that while nothing
  has failed, what was handed over is in objects the stored cursor covers, or in
  lines read of the object in hand, and that what is listed is not covered. It
  assumes `NoTwins`, no two equal lines in one object: emission does not prevent
  them, and the second would count as given again.
* `AgentGateProofs`: `ChannelTypeCorrect`, `GateAlwaysSafe`, `WritesNeedApproval`,
  `ChannelImplementsGuardedWrite`, in every mode. `GateInv` adds to the write gate
  that an apply message in the pipe carries an approved token, a gate frame in the
  pipe or in view an offered one, and that the gate at hand is undecided.
  `PolicyAlwaysRespected`: the policy's count is of the writes it has granted, at
  either end, and the writes applied are among those (`PolicyInv`, `Counted`).
  `NeverBothWait`: whenever the client waits there is a frame in the pipe, or the
  application owes it one (`DueInv`) for a key or an answer still in the other pipe.
  `ResolutionsAreTrue`: the first frame after the call that answers the gate on view
  is that gate's, however many requests were applied late before, and whatever the
  client still has to read (`ReplyInv`). A request applied late has no such theorem,
  as its event may tell of another frame.
  `DriveImplementsChannel`: every step of a conversation is a step of the channel,
  so all of these hold of it too.
  `NarrationAlwaysExact`, `DenialsAreTrue`, assuming `DriverDecides`: no deployment
  in which the application's own policy decides, as a conversation drives a worker
  whose gates are put to the driver. `TaleInv` says that what has been told is what
  was applied less what is still in the pipe (`InPipe`).
* `NegotiationProofs`: `NegotiationTypeCorrect`, for every registry, bank of rules,
  set of notices and combination of faults. `TypeInv` adds that a notice is at work
  only when its message is still the head of the queue, and that an unknown task has
  no asks.
  `RoundAlwaysCapped`: `RoundIsCapped` is not inductive, since the cap does not stop
  answers to the owner. `CapInv` says that in a round one message has been posted
  before the turns counted, that an owner's is heard first of all, and that while it
  is heard no more turns are counted than personas have heard it: so turns stay
  within the cap or the number of personas, whichever is more.
  `CallsAlwaysShorten`: `CallLeft` orders a call's positions by its part (hearing,
  feeding, planning, calling out), then what is left of it (hearings of the messages
  queued or that the cap still allows; messages unfed; tasks unplanned; tasks
  unsaid), then the rules left of the answer at hand. Every step ends the call or
  lowers it, so that no call goes on for ever is a fact of the code whatever its
  size; that it is not left in the middle is the fairness of `CallsEnd`.
* `NegotiationTruthProofs`, with the same generality: `NeverReruns`,
  `OnlySourcedReflexesRun`, `OwnerAlwaysHears`, `PlansAlwaysTrue`,
  `NegotiationSettles`. The inductive invariants:
  `SourceInv`, every notice in the queue is one that worker code composed, and a
  sourced job is of the one being heard, put to that persona by its origin (so a
  redirect's synthetic notice, a forged frame and a reused id without a source never
  fire a reflex);
  `HearsInv`, the counters are what the ledger marks, what is planned has a plan in
  the room, and a sweep past its plans left none to post;
  `RecordsInv`, what is marked, reported or about to be reported as applied did run,
  or a capability of the same note name did (`HasRun`);
  `TruthInv`, every response still to be fed has been said in the room, and so has
  what the ledger holds for done or accepted, ask by ask. `PlansAreTrue` alone is
  not inductive: a plan is composed from the ledger, the ledger from the messages,
  and a message may carry another's name. `NeverReruns` needs no more than the
  types: a reflex that runs was looked up in the same step, so this process has not
  marked it, and a note that is there was not read. Nothing stronger holds: after a
  restart an unreadable note is no note.
  `AppliedAlwaysReported`: `HeedInv` says of an answer at work that a rule already
  tried whose reflex is recorded has its ask covered by a reflex, unless its note
  was not read for this answer (`HeedsRecords`), that what the answer covers is of
  rules behind the one at hand (`CoversBehind`), and that what is about to be marked
  matches. It needs what `ReflexBank.register` refuses (`reflex.py:71-74`): two
  rules of a bank with one capability. `ReflexAssumption` says so. The cap of the
  policy bounds what it grants and not what runs: a mark whose note cannot be
  written leaves its apply uncounted (`reflex.py:283`), so no property bounds the
  runs.
  `FailuresAlwaysTrue`: `FailInv` says that a refusal leaves its ask with the owner
  for good (`RefusalsStand`), that no ask's failure is both told and to be told
  (`ToldOnce`), that every ask with the owner was deferred or has its failure
  (`NoneForgotten`), and that a call that has returned leaves none to tell
  (`ToldAll`).
* `ChatProofs`, for any number of threads, personas and events, every call out
  failing, crashes and threads forgotten. `ShapeInv` says what a thread's record is
  at each of its places.
  `TranscriptAlwaysConversation`: `DiskInv` says that the turns not yet folded are
  the last of those said, unchanged, that the summary is the rest of them but for
  what its bound let go, and that indices rise (`Holds`, `FoldedTo`); it is kept by
  `record` wherever a write, the fold or a deletion fails, by the sweep, the
  rollback and `forget`, as long as the record reads every file; of a thread with a
  record that could not (`misread`) nothing is said until it is forgotten. The
  property alone is not inductive: a turn folded whose file is still there must not
  be read twice.
  `PromptAlwaysWhole`: `LockInv` says that of the threads past the duplicate check
  the one whose event has a name holds the lock, so while all have one there is one
  such thread, and what it read (`PromptInv`) stays the transcript as it is.
  `MarkedAlwaysDone`, from the same: an event in hand is not in `seen`, and whatever
  is recorded or posted is of an event in hand.
  `PairsAlwaysUnlessCut`, of the threads not misread: `PairInv` says that of each
  persona's thread that was not forgotten midway, whoever is between the turns of an
  exchange has its user turn at the index it would withdraw (`Mine`), no two have
  one index (`Distinct`), and user turns outnumber replies by those who are at the
  exchange, or, if its message had no text, by no more than those (`Even`,
  `Silent`). Assumed is that the threads are finitely many, so that they can be
  counted.
  `ThreadsAlwaysShorten`: `ThreadLeft` counts the personas a thread has still to
  ask, with those its turns left under the cap may address, then the steps left of
  the turn at hand. `TalkInv` says that personas are asked in registry order
  (`Orderly`), so that the turns an operator's message has, cap or no cap, are
  within the registry. With `LockInv`, whoever waits for the router's lock waits for
  a thread with finitely many steps left.

* `TerminalProofs`, for every walk, every nesting and every mode:
  `TerminalAlwaysRestored`; its invariant ties the depth counter to the number of
  cooked windows open and says that one session is open at most, below all of them.
  `NoWriteByTypeAhead`, assuming `"lead" \notin Presses`, i.e. characters come whole
  (`gate_pushback` shows the behaviour without it): at the gate, whatever is queued
  was typed on its page, and nothing is pushed back.
  `HomeAlwaysSafe`: the invariant says that a capture nothing acted after has read
  the world as it is (`CaptureIsFresh`), that a Home without a capture in flight or
  a failed one shows it (`StateIsFresh`), and that outside the third mode the loop
  opens or captures only when none is in flight (`CaptureRunsAlone`).
  `DoctorAlwaysSafe`, for any reports, even such as double a row: the fix in hand is
  the one aimed at or of its probe, or the first row with nothing chosen
  (`DoctorInv`). `target` has to follow every fix that has run, not only those
  chosen by hand: otherwise the third fix in a row is compared with the wrong one, a
  case past the two fixes that `cockpit` bounds.
  `ViewportAlwaysSafe`, for every page, pin and height: a frame is right for the
  size it was measured at (`FrameSound`), a resize, taken or pending, leaves a mark
  that another pass follows (`ResizeFollowed`), so does a new page
  (`SheetFollowed`), and a detached viewport holds no console (`Detached`). `_pins`
  is a loop: that Top + Bottom rounds of it end in pins that fit is shown by the
  least round at which they would not (`LeastOf`).
  `CursorAlwaysSafe`, for every layout and catalogue: `RowsFit`, `PickFits` and
  `OneFramePerView` are inductive; that a row is drawn once (`DrawnOnce`) and that a
  move goes where the picture says (`AlwaysGoesBeside`) follows from how the grid is
  laid out, for a roster of any size, odd or even. The assumptions: letters are
  distinct, as the keys of a dict, a roster has one, and a worker's rows have tags
  of their own.
* `ServiceProofs`: `RefreshesOnlyWhenDue`, for any number of processes that fail and
  die anywhere: who is past the lock file holds it alone and has reread the store,
  and what it saves is the newest token issued.
  `MirrorAlwaysTrue`, for any threads, objects, events and failures: who is to
  replace the audit file has read it as it is, since the lock is held from the read
  on, or has failed to, and then drops exactly what was written before (`IsSince`);
  an event still to be written is one thread's and in no line yet; a body taken for
  an upload begins what is remembered whatever is appended meanwhile; and at an exit
  nobody races, an object that the flush has left already holds what is remembered
  (`ExitFlushes`).
  `UploadsAreWholeRuns`, for any nesting of sessions, buffers and isolations: an
  open session's part of its list is what was reported while the context was in it,
  since the contexts in the run are those its list is bound in (`SessionFits`), and
  an object is of a run no context will be in again (`ObjectsFit`).
* `CockpitProofs`, of the specification that `cockpit` runs.
  `CockpitTypeCorrect`: whatever runs, no row, offset, count or nesting of a
  component leaves its range. The types alone are not inductive, as most are kept by
  a bound somewhere else, so `CockpitFits` adds to each component's invariant what
  it counts by: Home's world moves once at most for each key pressed, queued keys
  included (`WorldIsEarned`); a token is issued once at most for each call, those
  waiting included (`TokenCounts`); there are no more reports than the first, the
  refreshes allowed and the fixes that have ended (`DoctorCounts`); and the sink
  never writes back a count of more lines than the file has, though threads count at
  once and the counter has no lock: what one has read, with one more for each thread
  between its line and its count, is within the lines there are (`LinesCount`).
  Frame sizes and the offset never fall below nothing (`ViewCounts`): a clamp to a
  body of no lines is at zero.
  `CockpitAlwaysSafe`, `CockpitConfirmsBySight` (again where characters come whole)
  and `CockpitRefreshesWhenDue`: what `TerminalProofs` and `ServiceProofs` prove of
  each component holds of the composition, as each of its steps is a step of every
  component or leaves it alone. The bounds (`MaxKeys`, `MaxDraws`, ...) are any
  naturals; threads and resolvers are finitely many; and the Home on which a cursor
  left alone rests is one of those there are (`RestAssumption`).

Only model-checked: liveness (`EveryLineHandled`, `CursorCatchesUp`,
`ConversationEnds`, `CallsEnd`, `ThreadsEnd`, `CockpitSettles`), which is out of
this prover's reach with fairness (`CallsShorten` and `ThreadsShorten` are the part of
`CallsEnd` and `ThreadsEnd` that is not). Every invariant and every other action
property a passing run checks has a theorem.

## 6. Not modelled

* Personas and prompts, mail and sheets, configuration, registry and contract:
  text, thin I/O over services, static tables; no state of their own.
* The model gateway: one call to a provider, without retry or state; its errors
  reach the modelled callers as calls that raise.
* Signal model, ranking, factory, horizon and the calendar: pure functions of
  records and dates, which unit tests reach.
* Of partly modelled components: rendering beyond which rows are drawn where; the
  governed shared memory and the working facts (one file per call); run-log
  format and redaction; usage counters and receipts of the shell; the rendering
  and parsing of negotiation frames and `_reconcile`'s choice among the decisions
  it may return.

`PROJECT.json` gives the reason per component.
