------------------------------- MODULE Playtest -------------------------------
(***************************************************************************)
(* The saved playtest of a deck: the service that keeps it                  *)
(* (playtest/service.ts), the command boundary its writes go through        *)
(* (commands.ts), and the browser windows that have it open (usePlaytest.ts *)
(* over transport.ts), with a network that loses requests and answers, or   *)
(* delivers a request after its sender has given it up.                     *)
(*                                                                         *)
(* The service stores one session with its undo history and accepts a write *)
(* only against the session and version the writer names.  A window runs    *)
(* its writes one after another, each against the version it saw last,      *)
(* reloads when told that something changed, and keeps the text of an       *)
(* unfinished observation by itself.  A text is known by the number of its  *)
(* typing, which is also its request id; Blank is no text.                  *)
(*                                                                         *)
(* The deck does not change meanwhile, so a draft's deck_revision is left   *)
(* out.  So are the selection, what is pinned and which zone is viewed,     *)
(* which are saved with the draft, and the card an observation is about.    *)
(***************************************************************************)
EXTENDS PlaytestTable

CONSTANTS
    Window,
    Plans,          \* what the users do, and how often the network fails them
    MaxPast,        \* frames of undo history, a hundred in the code
    MaxTexts        \* texts the plans type

ASSUME BoundsAssumption == {MaxPast, MaxTexts} \subseteq Nat

Blank == 0
Text == 0..MaxTexts

Plan == [windows : SUBSET Window, saved : BOOLEAN, elsewhere : Nat, texts : Text, acts : Nat,
         starts : Nat, saves : Nat, failures : Nat, actions : SUBSET Action]
ASSUME PlansAssumption == Plans \subseteq Plan

VARIABLES
    session,        \* what the service stores, None at first
    memories,       \* the observations saved, in order: their retry ledger
    receipts,       \* what the command boundary answers to a key it knows
    net,            \* requests that have not arrived
    win,            \* the windows
    scratch,        \* the browser's own copy of the draft of each session
    plan            \* what is left of the plan

vars == <<session, memories, receipts, net, win, scratch, plan>>

\* What a window gets to see of the session.
View(s) == IF s = None THEN None
           ELSE [id |-> s.id, version |-> s.version, frame |-> s.frame, draft |-> s.draft]

Opened == [view |-> None, draft |-> Blank, timer |-> FALSE, queue |-> <<>>, call |-> None,
           told |-> FALSE, reload |-> "due", ahead |-> 0, fetched |-> None]

Init ==
    /\ plan \in Plans
    /\ session \in IF ~plan.saved THEN {None} ELSE
         {[id |-> 0, version |-> 0, frame |-> f, past |-> <<>>, future |-> <<>>, draft |-> Blank] :
            f \in Deals("practice")}
    /\ memories = <<>> /\ receipts = {} /\ net = {}
    /\ scratch = {}
    /\ win = [w \in Window |-> Opened]

----------------------------------------------------------------------------
\* The service: the sessions that a request may leave behind, none when it is refused.
Current(r) == session # None /\ r.id = session.id /\ r.version = session.version

Frames(s) == {s.frame} \cup ToSet(s.past) \cup ToSet(s.future)
Seen(s) == UNION {InGame(f) : f \in Frames(s)}

\* Undo and redo move the frame between the two histories.
Walk(s, from, to) ==
    IF s[from] = <<>> THEN {}
    ELSE {[s EXCEPT !.frame = Last(s[from]), ![from] = Front(@), ![to] = Append(@, s.frame)]}

Acted(s, a) ==
    CASE a.type = "undo" -> Walk(s, "past", "future")
      [] a.type = "redo" -> Walk(s, "future", "past")
      [] OTHER ->
           LET past == Append(s.past, s.frame)
           IN {[s EXCEPT !.frame = f, !.future = <<>>,
                         !.past = IF Len(past) > MaxPast THEN Tail(past) ELSE past] :
                 f \in Outcomes(s.frame, a, Seen(s))}

changePlaytest(r) ==
    IF Current(r) THEN {[s EXCEPT !.version = @ + 1] : s \in Acted(session, r.body)} ELSE {}

\* Mutant: saving the draft is not a change of the session.
savePlaytestUiSilently(r) == IF Current(r) THEN {[session EXCEPT !.draft = r.body.text]} ELSE {}

savePlaytestUi(r) ==
    IF Current(r) THEN {[session EXCEPT !.draft = r.body.text, !.version = @ + 1]} ELSE {}

\* A new session takes the unfinished observation of the old one along.
startPlaytest(r) ==
    IF session = None \/ Current(r)
    THEN {[id |-> IF session = None THEN 0 ELSE session.id + 1, version |-> 0, frame |-> f,
           past |-> <<>>, future |-> <<>>, draft |-> IF session = None THEN Blank ELSE session.draft] :
            f \in Deals(r.body.mode)}
    ELSE {}

After(r) == CASE r.kind = "act" -> changePlaytest(r)
              [] r.kind = "ui" -> savePlaytestUi(r)
              [] r.kind = "start" -> startPlaytest(r)

\* An observation is saved once, however often it is asked for.
Saving(r) == [text |-> r.body.text, session |-> r.id]
\* Mutant: the retry ledger is not consulted.
PriorUnknown(r) == {}

Prior(r) == {m \in ToSet(memories) : m.text = r.body.text}

----------------------------------------------------------------------------
\* A request arrives.  Its answer finds the window only when that still waits for it; a change
\* of the table is announced to every window.
Answer(r, ok, view, announce) ==
    win' = [w \in Window |->
              LET told == [win[w] EXCEPT !.told = @ \/ (announce /\ w \in plan.windows)]
                  call == win[w].call
              IN IF w = r.from /\ call # None /\ call.key = r.key /\ call.attempt = r.attempt
                 THEN [told EXCEPT !.call.reply = [ok |-> ok, view |-> view]] ELSE told]

Arrive(r) == net' = net \ {r} /\ UNCHANGED <<scratch, plan>>
Remember(r, view) == receipts' = receipts \cup {[key |-> r.key, view |-> view]}
\* Mutant: no receipt is kept for a retry.
KnownNever(r) == {k \in receipts : k.key = r.key /\ r.attempt = 1}

Known(r) == {k \in receipts : k.key = r.key}

\* A key that is known gets the first answer again, and nothing is done.  (A receipt is good for a
\* day; the retry of the transport follows its failure at once, and none a day late is modelled.)
Replay(r) ==
    /\ \E k \in Known(r) : Answer(r, TRUE, k.view, FALSE)
    /\ Arrive(r) /\ UNCHANGED <<session, memories, receipts>>

Execute(r) ==
    /\ Known(r) = {} /\ r.kind # "observe"
    /\ \E s \in After(r) : session' = s /\ Remember(r, View(s)) /\ Answer(r, TRUE, View(s), TRUE)
    /\ Arrive(r) /\ UNCHANGED memories

Observe(r) ==
    /\ Known(r) = {} /\ r.kind = "observe"
    /\ IF Prior(r) # {} THEN Saving(r) \in Prior(r) /\ UNCHANGED memories
       ELSE /\ session # None /\ r.id = session.id
            /\ memories' = Append(memories, Saving(r))
    /\ Remember(r, None) /\ Answer(r, TRUE, None, FALSE)
    /\ Arrive(r) /\ UNCHANGED session

Refuse(r) ==
    /\ Known(r) = {}
    /\ IF r.kind # "observe" THEN After(r) = {}
       ELSE IF Prior(r) # {} THEN Saving(r) \notin Prior(r)
       ELSE session = None \/ r.id # session.id
    /\ Answer(r, FALSE, None, FALSE)
    /\ Arrive(r) /\ UNCHANGED <<session, memories, receipts>>

Serve(r) == Replay(r) \/ Execute(r) \/ Observe(r) \/ Refuse(r)

Awaited(r) ==
    LET call == win[r.from].call
    IN call # None /\ call.key = r.key /\ call.attempt = r.attempt /\ call.reply = None

\* Somebody changes the table in a window that is not looked at here.
Elsewhere ==
    /\ session # None /\ plan.elsewhere > 0 /\ plan' = [plan EXCEPT !.elsewhere = @ - 1]
    /\ \E a \in plan.actions : \E s \in Acted(session, a) : session' = [s EXCEPT !.version = @ + 1]
    /\ win' = [w \in Window |-> [win[w] EXCEPT !.told = w \in plan.windows]]
    /\ UNCHANGED <<memories, receipts, net, scratch>>

\* A request that its window has given up may never arrive.
Lose(r) ==
    /\ ~Awaited(r)
    /\ net' = net \ {r}
    /\ UNCHANGED <<session, memories, receipts, win, scratch, plan>>

----------------------------------------------------------------------------
\* A window.
Set(w, to) == win' = [win EXCEPT ![w] = to]
Service == UNCHANGED <<session, memories, receipts>>
Spend(what) == plan[what] > 0 /\ plan' = [plan EXCEPT ![what] = @ - 1]

Job(kind, body, id) == [kind |-> kind, body |-> body, id |-> id, next |-> 1]
Draft(text) == [text |-> text]
Queue(me, j) == [me EXCEPT !.queue = Append(@, j)]

\* stashDraft, and what apply() leaves in the browser.
Others(id) == {s \in scratch : s.id # id}
Stashed(v, draft) ==
    IF v = None THEN scratch
    ELSE Others(v.id) \cup {[id |-> v.id, version |-> v.version, draft |-> draft]}

\* editUi: the text changes at once and is saved a moment later.
Edited(me, text) == [me EXCEPT !.draft = text, !.timer = TRUE]

Type(w) ==
    LET me == win[w]
        text == Cardinality({t \in Text : t >= plan.texts}) \* the next that was never typed
    IN /\ me.view # None /\ Spend("texts")
       /\ \E t \in {text, Blank} : t # me.draft /\ Set(w, Edited(me, t)) /\ scratch' = Stashed(me.view, t)
       /\ Service /\ UNCHANGED net

TimerFires(w) ==
    LET me == win[w]
    IN /\ me.timer
       /\ Set(w, Queue([me EXCEPT !.timer = FALSE], Job("ui", Draft(me.draft), None)))
       /\ Service /\ UNCHANGED <<net, scratch, plan>>

Act(w) ==
    /\ win[w].view # None /\ Spend("acts")
    /\ \E a \in plan.actions : Set(w, Queue(win[w], Job("act", a, None)))
    /\ Service /\ UNCHANGED <<net, scratch>>

Start(w) ==
    /\ Spend("starts")
    /\ \E mode \in Mode : Set(w, Queue(win[w], Job("start", [mode |-> mode], None)))
    /\ Service /\ UNCHANGED <<net, scratch>>

Save(w) ==
    LET me == win[w]
    IN /\ me.view # None /\ me.draft # Blank /\ Spend("saves")
       /\ Set(w, Queue(me, Job("save", Draft(me.draft), me.view.id)))
       /\ Service /\ UNCHANGED <<net, scratch>>

----------------------------------------------------------------------------
\* The job at the head of the queue makes one request, or two.
Request(w, key, kind, body, id, version) ==
    [from |-> w, key |-> key, attempt |-> 1, kind |-> kind, body |-> body, id |-> id,
     version |-> version]

FreeKeys(w) == {k \in {w} \X {1, 2} : \A r \in net : r.key # k}
FirstFree(w) == CHOOSE k \in FreeKeys(w) : \A other \in FreeKeys(w) : k[2] <= other[2]

\* What the job asks for next.
Asked(w, j) ==
    LET me == win[w]
        id == IF me.view = None THEN None ELSE me.view.id
        version == IF me.view = None THEN None ELSE me.view.version
        ask(kind, body, at) == Request(w, FirstFree(w), kind, body, at, version)
    IN CASE j.kind = "start" /\ j.next = 1 /\ id # None /\ me.draft # Blank -> ask("ui", Draft(me.draft), id)
         [] j.kind = "start" -> ask("start", j.body, id)
         [] j.kind = "save" /\ j.next = 2 -> ask("observe", j.body, j.id)
         [] j.kind \in {"save", "ui"} -> ask("ui", j.body, id)
         [] OTHER -> ask("act", j.body, id)

Send(w) ==
    LET me == win[w]
        r == Asked(w, Head(me.queue))
        begun == IF r.kind = "start" THEN 2 ELSE Head(me.queue).next
    IN /\ me.queue # <<>> /\ me.call = None /\ FreeKeys(w) # {}
       /\ Set(w, [me EXCEPT !.call = [key |-> r.key, attempt |-> 1, request |-> r, reply |-> None],
                            !.queue[1].next = begun,
                            !.timer = @ /\ Head(me.queue).kind # "start"])
       /\ net' = net \cup {r}
       \* Nobody asks again with a key that is used anew.
       /\ receipts' = {k \in receipts : \E q \in net : q.key = k.key}
       /\ UNCHANGED <<session, memories, scratch, plan>>

Done(me) == [me EXCEPT !.queue = Tail(@), !.call = None, !.ahead = IF @ = 0 THEN 0 ELSE @ - 1]

\* The connection breaks.  The transport asks once more with the same key, then the job fails.
Break(w) ==
    LET me == win[w]
        again == [me.call.request EXCEPT !.attempt = 2]
    IN /\ me.call # None /\ me.call.reply = None /\ Spend("failures")
       /\ IF me.call.attempt = 1
          THEN Set(w, [me EXCEPT !.call.attempt = 2]) /\ net' = net \cup {again}
          ELSE Set(w, Done(me)) /\ UNCHANGED net
       /\ Service /\ UNCHANGED scratch

\* apply(): the answer is what the window shows now.  It never touches what is being typed.
Kept(me, v) == IF me.view # None /\ me.view.id = v.id THEN me.draft ELSE v.draft

Got(w) == LET me == win[w] IN me.call # None /\ me.call.reply # None

Failed(w) ==
    /\ Got(w) /\ ~win[w].call.reply.ok
    /\ Set(w, Done(win[w]))
    /\ Service /\ UNCHANGED <<net, scratch, plan>>

Applied(w) ==
    LET me == win[w]
        v == me.call.reply.view
        now == [me EXCEPT !.view = v]
        j == Head(me.queue)
        more == j.next = 1 /\ j.kind \in {"start", "save"}
        \* start() forgets the browser's copy of the session it replaced.
        old == IF j.kind = "start" /\ ~more THEN me.call.request.id ELSE None
    IN /\ Got(w) /\ me.call.reply.ok /\ v # None
       /\ Set(w, IF more THEN [now EXCEPT !.queue[1].next = 2, !.call = None]
                 ELSE IF j.kind = "start" THEN [Done(now) EXCEPT !.draft = v.draft]
                 ELSE Done(now))
       /\ scratch' = {s \in Stashed(v, Kept(me, v)) : s.id # old \/ s.id = v.id}
       /\ Service /\ UNCHANGED <<net, plan>>

\* The observation is saved: the editor is emptied, unless something else is in it by now.
Observed(w) ==
    LET me == win[w]
    IN /\ Got(w) /\ me.call.reply.ok /\ me.call.reply.view = None
       /\ IF me.draft = Head(me.queue).body.text
          THEN Set(w, Edited(Done(me), Blank)) /\ scratch' = Stashed(me.view, Blank)
          ELSE Set(w, Done(me)) /\ UNCHANGED scratch
       /\ Service /\ UNCHANGED <<net, plan>>

----------------------------------------------------------------------------
\* A window that is told of a change reloads once the writes it has queued are done.  Being
\* told again voids a reload that is under way.
Notify(w) ==
    LET me == win[w]
    IN /\ me.told
       /\ Set(w, [me EXCEPT !.told = FALSE, !.reload = "due", !.ahead = Len(me.queue), !.fetched = None])
       /\ Service /\ UNCHANGED <<net, scratch, plan>>

Fetch(w) ==
    LET me == win[w]
    IN /\ me.reload = "due" /\ me.ahead = 0
       /\ Set(w, [me EXCEPT !.reload = "fetched", !.fetched = View(session)])
       /\ Service /\ UNCHANGED <<net, scratch, plan>>

\* The browser's copy, when it is as recent as the session.
Stash(v) == {s.draft : s \in {t \in scratch : t.id = v.id /\ t.version >= v.version}}
\* Mutant: a reload replaces what is being typed.
RecoveredFromServer(me, v) == IF Stash(v) # {} THEN CHOOSE d \in Stash(v) : TRUE ELSE v.draft

\* Text in the editor stays; an empty editor takes the browser's copy or the saved draft.
Recovered(me, v) ==
    IF me.draft # Blank THEN me.draft
    ELSE IF Stash(v) # {} THEN CHOOSE d \in Stash(v) : TRUE ELSE v.draft

Reloaded(w) ==
    LET me == win[w]
        v == me.fetched
        now == [me EXCEPT !.view = v, !.reload = "no", !.fetched = None]
        draft == Recovered(me, v)
    IN /\ me.reload = "fetched"
       /\ Set(w, IF v = None THEN now
                 ELSE IF draft = v.draft THEN [now EXCEPT !.draft = draft]
                 ELSE Queue([now EXCEPT !.draft = draft], Job("ui", Draft(draft), None)))
       /\ Service /\ UNCHANGED <<net, scratch, plan>>

----------------------------------------------------------------------------
Users(w) == Type(w) \/ Act(w) \/ Start(w) \/ Save(w)
Browser(w) ==
    \/ TimerFires(w) \/ Send(w) \/ Failed(w) \/ Applied(w) \/ Observed(w)
    \/ Notify(w) \/ Fetch(w) \/ Reloaded(w)

Next ==
    \/ \E w \in plan.windows : Users(w) \/ Browser(w) \/ Break(w)
    \/ \E r \in net : Serve(r) \/ Lose(r)
    \/ Elsewhere

Spec == Init /\ [][Next]_vars

----------------------------------------------------------------------------
\* Every session the service stores can be read back: read() and sessionSchema find nothing wrong
\* with the frame or with any frame of either history, whatever moves, copies, attachments,
\* removals, mulligans, undos and redos led there.
StoredCanBeRead ==
    session # None =>
      /\ \A f \in Frames(session) : Readable(f)
      /\ Len(session.past) <= MaxPast /\ Len(session.future) <= MaxPast

\* Everything the windows hold or are about to be shown.
Snapshots ==
    ((UNION {{win[w].view, win[w].fetched} : w \in Window})
       \cup {win[w].call.reply.view : w \in {u \in Window : Got(u)}}
       \cup {k.view : k \in receipts}) \ {None}

\* A session and a version name one table (checkVersion): a write that names them is made by
\* somebody who saw what it is applied to, though answers come late, are replayed from receipts, or
\* belong to a session that has been replaced.
VersionNamesTable ==
    \A v \in Snapshots :
      session # None /\ v.id = session.id /\ v.version = session.version => v = View(session)

\* No observation is saved twice (saveObservation: "a timed-out save can be retried without writing
\* a duplicate"), by the transport's retry, by the user who asks again after a failure, or by
\* another window that recovered the same text.
ObservedOnce == \A i, j \in DOMAIN memories : memories[i].text = memories[j].text => i = j

\* A window that hears of a refusal can believe it (executeCommand, request): nothing was done under
\* that key, though the first attempt may have been carried out and its answer lost.  (While the
\* receipt is good: the boundary refuses a key it knows once its receipt has expired.)
RefusalsAreTrue ==
    \A w \in Window : Got(w) /\ ~win[w].call.reply.ok => \A k \in receipts : k.key # win[w].call.key

\* Typing is kept (usePlaytest: "a delayed response never overwrites newer typing"): text leaves the
\* editor only when its user types, when it has been saved as an observation, or when a new session
\* is started in that window.
TypingIsKept ==
    [][\A w \in Window :
         win[w].draft # Blank /\ win'[w].draft # win[w].draft =>
           \/ plan'.texts # plan.texts
           \/ \E m \in ToSet(memories) : m.text = win[w].draft
           \/ win[w].queue # <<>> /\ Head(win[w].queue).kind = "start"]_vars
=============================================================================
