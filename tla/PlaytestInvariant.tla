------------------------- MODULE PlaytestInvariant -------------------------
(***************************************************************************)
(* The inductive invariant of Playtest: what its properties need to know   *)
(* about every frame, about what the windows and the network hold, and     *)
(* about the call each window is waiting for.                              *)
(***************************************************************************)
EXTENDS Playtest

Session == [id : Nat, version : Nat, frame : Frame, past : Seq(Frame), future : Seq(Frame),
            draft : Text]
Shown == [id : Nat, version : Nat, frame : Frame, draft : Text]

\* None is none of the values whose absence it marks.
ASSUME NoneAssumption ==
    None \notin Nat /\ None \notin Object /\ None \notin Session /\ None \notin Shown

Body == [mode : Mode] \cup [text : Text] \cup Action
Fits(kind, body) ==
    /\ kind = "start" => body \in [mode : Mode]
    /\ kind \in {"ui", "observe", "save"} => body \in [text : Text]
    /\ kind = "act" => body \in Action

Key == Window \X {1, 2}
Asking == {r \in [from : Window, key : Key, attempt : {1, 2}, kind : {"start", "ui", "act", "observe"},
                  body : Body, id : Nat \cup {None}, version : Nat \cup {None}] :
             Fits(r.kind, r.body) /\ r.key[1] = r.from}
Queued == {j \in [kind : {"start", "ui", "act", "save"}, body : Body, id : Nat \cup {None},
                  next : {1, 2}] : Fits(j.kind, j.body)}
Reply == [ok : BOOLEAN, view : Shown \cup {None}]
Call == [key : Key, attempt : {1, 2}, request : Asking, reply : Reply \cup {None}]
WindowState ==
    [view : Shown \cup {None}, draft : Text, timer : BOOLEAN, queue : Seq(Queued),
     call : Call \cup {None}, told : BOOLEAN, reload : {"no", "due", "fetched"}, ahead : Nat,
     fetched : Shown \cup {None}]

TypeOK ==
    /\ plan \in Plan /\ session \in Session \cup {None}
    /\ memories \in Seq([text : Text, session : Nat])
    /\ receipts \subseteq [key : Key, view : Shown \cup {None}]
    /\ net \subseteq Asking
    /\ scratch \subseteq [id : Nat, version : Nat, draft : Text]
    /\ win \in [Window -> WindowState]

----------------------------------------------------------------------------
\* A frame lies right: every object is in one place, only what is on the battlefield is attached, to
\* something that is there, and the cards chosen for the bottom are in the hand.
Laid(f) ==
    /\ f \in Frame
    /\ \A z1, z2 \in Zone : z1 # z2 => On(f, z1) \cap On(f, z2) = {}
    /\ \A z \in Zone : IsInjective(f.zones[z])
    /\ \A x \in Object : f.attached[x] # None => {x, f.attached[x]} \subseteq On(f, "battlefield")
FrameOK(f) ==
    /\ Laid(f)
    /\ f.opening.stage = "choosing" =>
         IsInjective(f.opening.bottom) /\ ToSet(f.opening.bottom) \subseteq On(f, "hand")

Kempt(s) ==
    /\ \A f \in Frames(s) : FrameOK(f)
    /\ Len(s.past) + Len(s.future) <= MaxPast

----------------------------------------------------------------------------
\* v was seen of the session s or of one before it, and only what is shown now has its version.
Dated(v, s) ==
    s # None /\ (v.id < s.id \/ (v.id = s.id /\ (v.version < s.version \/ v = View(s))))

\* A request names a session and version that have been.
Behind(r, s) ==
    r.id # None =>
      s # None /\ (r.id < s.id \/ (r.id = s.id /\ (r.kind # "observe" =>
                                                       r.version \in Nat /\ r.version <= s.version)))

\* What r asks for can never be done: it was not made of this session at this version, the table
\* refuses the action, or the text is saved already in the name of another session.
Hopeless(r, s, ms) ==
    IF r.kind = "observe"
    THEN LET prior == {m \in ToSet(ms) : m.text = r.body.text}
         IN IF prior # {} THEN Saving(r) \notin prior ELSE s = None \/ r.id # s.id
    ELSE \/ r.kind = "start" /\ Deals(r.body.mode) = {}
         \/ r.kind = "act" /\ s # None /\ Acted(s, r.body) = {}
         \/ r.kind # "start" /\ s = None
         \/ s # None /\ (r.id # s.id \/ r.version # s.version)

Saved(r, ms) == r.kind = "observe" /\ \E m \in ToSet(ms) : m.text = r.body.text

\* What a window waits for: whatever is under way under its key is the request it made, and what it
\* is answered is true.
CallOK(c, q, s, ms, rs, n) ==
    /\ q # <<>> /\ c.request.key = c.key
    /\ c.request.kind = "observe" => c.request.body = Head(q).body
    /\ Behind(c.request, s)
    /\ \A r \in n : r.key = c.key => r = [c.request EXCEPT !.attempt = r.attempt]
    /\ \A k \in rs : k.key = c.key /\ k.view = None => Saved(c.request, ms)
    /\ c.reply # None =>
         /\ c.reply.ok /\ c.reply.view = None => Saved(c.request, ms)
         /\ c.reply.view # None => Dated(c.reply.view, s)
         /\ ~c.reply.ok => Hopeless(c.request, s, ms) /\ \A k \in rs : k.key # c.key

WindowOK(w, me, s, ms, rs, n) ==
    /\ \A v \in {me.view, me.fetched} \ {None} : Dated(v, s)
    /\ \A i \in DOMAIN me.queue : me.queue[i].id # None => s # None /\ me.queue[i].id <= s.id
    /\ me.call # None => me.call.key[1] = w /\ CallOK(me.call, me.queue, s, ms, rs, n)

IInv ==
    /\ TypeOK
    /\ session # None => Kempt(session)
    /\ ObservedOnce
    /\ \A r \in net : Behind(r, session)
    /\ \A k \in receipts : k.view # None => Dated(k.view, session)
    /\ \A w \in Window : WindowOK(w, win[w], session, memories, receipts, net)
=============================================================================
