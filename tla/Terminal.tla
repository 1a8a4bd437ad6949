------------------------------ MODULE Terminal ------------------------------
(***************************************************************************)
(* The conversation the terminal shows (internal/channel/cli.go): pages of *)
(* a session's recorded events, the live events that follow, and what the  *)
(* user has sent and nobody has stored yet.  One goroutine owns the screen *)
(* (Update); pages and inputs are fetched and sent by others.              *)
(*                                                                         *)
(* A recorded event is an input, an output, or the start or the end of a   *)
(* tool call; the two of a call share a slot of the screen.  An event has  *)
(* its place in the record and the id of the input it belongs to.          *)
(***************************************************************************)
EXTENDS Naturals, Sequences, FiniteSets, SequencesExt

CONSTANTS
  Sessions,
  Page,         \* cliMaxMessages
  Cap,          \* cliMaxLoadedMessages
  MaxEvents,    \* events recorded in all
  MaxSubmits, MaxSwitches

Nobody == "none"

VARIABLES
  recorded,     \* session -> its events, oldest first
  live,         \* session -> the events on their way to the screen
  active,       \* the session shown, which is also the one inputs are sent to
  loaded,       \* the session whose events are shown, Nobody: none yet
  shown,        \* the entries: [at, kind, id]
  before,       \* how many events of the session lie before the first one loaded
  loading,      \* an older page is being fetched
  pages,        \* the fetches under way: [session, before, view]
  pending,      \* the ids of what was sent and is not known to be stored
  baseline,     \* how much was shown when the first of them was sent
  outbox,       \* inputs on their way to the gateway: [id, session]
  submits, switches,
  view,         \* how often the session shown has changed
  raced,        \* a page was loaded that holds events still on their way, or that was
                \* asked for before the session was shown anew
  full          \* the screen has been at its cap

vars == <<recorded, live, active, loaded, shown, before, loading, pages, pending, baseline,
          outbox, submits, switches, view, raced, full>>

Total == FoldFunctionOnSet(+, 0, [s \in Sessions |-> Len(recorded[s])], Sessions)
Drop(seq, n) == SubSeq(seq, n + 1, Len(seq))
LastOf(seq, n) == IF Len(seq) > n THEN Drop(seq, Len(seq) - n) ELSE seq
AtMost(n) == IF n > Page THEN n - Page ELSE 0

-----------------------------------------------------------------------------
(* Entries. *)

\* The two events of a call make one entry: the later one rewrites the earlier one's.
SlotOf(entries, event) ==
  {i \in DOMAIN entries: entries[i].kind \in {"started", "ended"} /\ entries[i].id = event.id
                         /\ event.kind \in {"started", "ended"}}
WithEvent(entries, event) ==
  IF SlotOf(entries, event) = {} THEN Append(entries, event)
  ELSE [entries EXCEPT ![CHOOSE i \in SlotOf(entries, event): TRUE].kind = event.kind]

EntriesOf(events) == FoldLeft(WithEvent, <<>>, events)
PageOf(session, end) == SubSeq(recorded[session], AtMost(end) + 1, end)

\* Faulty variant: the entries of an older page are put behind what is shown.
PrependedBehind(older, entries) == entries \o older
\* An older page goes in front; what is shown already is left out of it.
Prepended(older, entries) ==
  SelectSeq(older, LAMBDA e: \A i \in DOMAIN entries: entries[i] # e) \o entries

\* The inputs among the entries behind the baseline.
Stored(entries, base) == {e.id : e \in {f \in ToSet(Drop(entries, base)): f.kind = "input"}}
Reconciled(entries) == SelectSeq(pending, LAMBDA id: id \notin Stored(entries, baseline))

-----------------------------------------------------------------------------
\* The screen opens on the session used last and loads its newest page.
Init ==
  /\ recorded \in [Sessions -> {<<>>, <<[at |-> 1, kind |-> "input", id |-> 0],
                                        [at |-> 2, kind |-> "output", id |-> 0],
                                        [at |-> 3, kind |-> "output", id |-> 0]>>}]
  /\ live = [s \in Sessions |-> <<>>]
  /\ active \in Sessions /\ loaded = active
  /\ shown = EntriesOf(PageOf(active, Len(recorded[active])))
  /\ before = AtMost(Len(recorded[active]))
  /\ loading = FALSE /\ pages = {} /\ pending = <<>> /\ baseline = 0 /\ outbox = {}
  /\ view = 0 /\ submits = 0 /\ switches = 0 /\ raced = FALSE /\ full = FALSE

Screen == <<active, loaded, shown, before, loading, pending, baseline, view, raced, full>>

\* Enter: the text is shown as pending, and a goroutine hands it to the gateway.
SubmitInput ==
  /\ submits < MaxSubmits /\ submits' = submits + 1
  /\ pending' = Append(pending, submits')
  /\ baseline' = IF pending = <<>> THEN Len(shown) ELSE baseline
  /\ outbox' = outbox \cup {[id |-> submits', session |-> active]}
  /\ UNCHANGED <<recorded, live, active, loaded, shown, before, loading, pages, switches,
                 view, raced, full>>

\* An event of the session is recorded and sent to the screen.
Record(s, kind, id) ==
  /\ Total < MaxEvents
  /\ LET event == [at |-> Len(recorded[s]) + 1, kind |-> kind, id |-> id] IN
       /\ recorded' = [recorded EXCEPT ![s] = Append(@, event)]
       /\ live' = [live EXCEPT ![s] = Append(@, event)]
  /\ UNCHANGED <<Screen, pages, submits, switches>>

\* The gateway takes an input, in whatever order the goroutines come, and stores it.
EnqueueInput ==
  \E m \in outbox: Record(m.session, "input", m.id) /\ outbox' = outbox \ {m}

\* A run of the session makes a call, ends it, or answers.
RunSpeaks(s) ==
  /\ recorded[s] # <<>>
  /\ LET last == Last(recorded[s]) IN
       CASE last.kind = "input"   -> \/ Record(s, "started", last.id)
                                     \/ Record(s, "output", last.id)
         [] last.kind = "started" -> Record(s, "ended", last.id)
         [] last.kind = "ended"   -> Record(s, "output", last.id)
         [] OTHER -> FALSE
  /\ UNCHANGED outbox

-----------------------------------------------------------------------------
(* Update. *)

\* Another session is made the active one: nothing of the old one stays, though a page
\* of it may still come.
Forget(s) ==
  /\ active' = s /\ view' = view + 1
  /\ pending' = <<>> /\ baseline' = 0

Shows(entries) ==
  /\ shown' = LastOf(entries, Cap)
  /\ full' = (full \/ Len(entries) >= Cap)

\* A live event of the entry agent makes its session the active one; if it was not, the
\* events before it are not loaded.
ApplyRunEvent(s) ==
  /\ live[s] # <<>>
  /\ live' = [live EXCEPT ![s] = Tail(@)]
  /\ LET event == Head(live[s]) IN
       IF s = active
       THEN /\ Shows(WithEvent(shown, event))
            /\ loaded' = IF loaded = Nobody THEN s ELSE loaded
            /\ pending' = Reconciled(shown')
            /\ UNCHANGED <<active, before, loading, baseline, view>>
       ELSE /\ Forget(s) /\ before' = 0 /\ loading' = FALSE
            /\ Shows(<<event>>)
            /\ loaded' = s
  /\ UNCHANGED <<recorded, pages, outbox, submits, switches, raced>>

\* /session: the session is loaded anew, unless it is the one that is loaded.
SwitchSession(s) ==
  /\ switches < MaxSwitches /\ switches' = switches + 1
  /\ s # active
  /\ Forget(s)
  /\ Shows(EntriesOf(PageOf(s, Len(recorded[s]))))
  /\ loaded' = s
  /\ before' = AtMost(Len(recorded[s])) /\ loading' = FALSE
  /\ raced' = (raced \/ live[s] # <<>>)
  /\ UNCHANGED <<recorded, live, pages, outbox, submits>>

\* The page before what is loaded is asked for, once at a time.
LoadOlder ==
  /\ ~loading /\ before > 0
  /\ loading' = TRUE
  /\ pages' = pages \cup {[session |-> active, before |-> before, view |-> view]}
  /\ UNCHANGED <<recorded, live, active, loaded, shown, before, pending, baseline, outbox,
                 submits, switches, view, raced, full>>

\* A page of a session that is not shown any more only ends the loading.
ApplySessionEventPage(page) ==
  /\ page \in pages
  /\ pages' = pages \ {page}
  /\ loading' = FALSE
  /\ IF page.session # active THEN UNCHANGED <<loaded, shown, before, pending, raced, full>>
     ELSE /\ Shows(Prepended(EntriesOf(PageOf(active, page.before)), shown))
          /\ loaded' = active
          /\ before' = AtMost(page.before)
          /\ pending' = Reconciled(shown')
          /\ raced' = (raced \/ page.view # view)
  /\ UNCHANGED <<recorded, live, active, baseline, outbox, submits, switches, view>>

Next ==
  \/ SubmitInput \/ EnqueueInput \/ LoadOlder
  \/ \E s \in Sessions: RunSpeaks(s) \/ ApplyRunEvent(s) \/ SwitchSession(s)
  \/ \E page \in pages: ApplySessionEventPage(page)

Spec == Init /\ [][Next]_vars

-----------------------------------------------------------------------------
(* Properties. *)

\* The entries are a stretch of what the session shown has recorded, each event once, in
\* order and without a hole.  Excepted are a page that was loaded while events of its were
\* on their way, and one asked for before the session was left and shown again.
ShownIsAStretch ==
  ~raced /\ shown # <<>> =>
    /\ loaded = active
    /\ \A i, j \in DOMAIN shown: i < j => shown[i].at < shown[j].at
    /\ \A at \in shown[1].at..Last(shown).at:
         \/ recorded[active][at].kind = "ended"
         \/ \E i \in DOMAIN shown: shown[i].at = at /\ shown[i].id = recorded[active][at].id

\* What the user sees stored is not shown as pending beside it, until the screen is full.
PendingIsUnstored ==
  ~full => \A i \in DOMAIN shown: shown[i].kind = "input" => shown[i].id \notin ToSet(pending)
=============================================================================
