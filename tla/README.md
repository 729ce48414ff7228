# TLA+ models of the MTG ecosystem

The repository holds a rules engine for *Magic: the Gathering* (Rust,
`packages/game-engine`), a deck builder that people and agents share
(TypeScript, `packages/deck-builder`), and a parser of card texts
(`packages/oracle-parser`). This directory models the parts whose correctness
depends on the order of events: the engine's rules kernel, the deck builder's
membership, undo and proposals, its playtest with the browser's write queue, and
its background jobs with the restore of a backup. TLC checks them on small
instances; TLAPS proves the invariants of the kernel, the deck, its proposals, the
playtest and the jobs for every instance.

Every module needs only the standard and community modules. To check one thing:

    tlc -workers 2 -config Deck_partners.cfg MCDeck.tla
    tlapm PriorityStack_proofs.tla
    tlapm DeckMembership_proofs.tla
    tlapm DeckHistory_proofs.tla
    tlapm ProposalReview_proofs.tla
    tlapm Playtest_proofs.tla
    tlapm TurnCombat_proofs.tla
    tlapm Jobs_proofs.tla

`PROJECT.json` lists the runs, the source lines each definition stands for, a
mutant (a plausible bug) that each property catches, and the hazards.

## Inventory

### Rules engine (`packages/game-engine`)

One `Game` value owns the whole state and is single-threaded. Its callers reach
it through `check_response`/`submit`/`respond` (a player's answer), `concede`
(a departure, legal at any time) and `advance` (apply rule steps until someone
must answer or the game ends). Answers and departures are *queued*; only a rule
step applies them, so every rule step may meet a table that changed since an
answer was validated.

| Part | State | Operations | What is hard | What makes it correct |
|---|---|---|---|---|
| Priority, casting, stack, mana (`engine.rs`, `casting.rs`) | `priority`, `passes`, `frame` (what the kernel is in the middle of), stack, pools, taps | `step` per frame and input, `reverse_cast`, `begin_resolution`, `finish_spell` | a cast is five steps and can be taken back from two of them; passes made before it come back | stack and zones agree; a spell resolves only after every remaining player passed on that very table; a reversal leaves no trace |
| Departures (`multiplayer.rs`) | `live`, `pending_concessions` | `concede`, `begin_departure`, `finish_departure` | interrupts every frame: the caster, the target, the spell's owner or the asked player goes | the departed hold nothing; the game still asks somebody who has an answer |
| Turns (`turns.rs`) | `turn`, `TurnStep` | transitions, untap, draw, land play | a turn whose player left | each step once, for a live player |
| Combat, state-based actions, cleanup (`combat.rs`) | attackers, blocks, damage | declarations, damage, loss | simultaneous losses, departures inside a declaration | removed from combat everywhere at once |
| Commanders (`commander.rs`) | tax, damage ledger, suspended frame | return decision | a decision inside another frame | the frame resumes where it was |
| Event batches (`events.rs`) | none between batches | prepare, apply | parallel effects on one object | no conflict, all or nothing |
| Snapshots, replay (`recovery.rs`) | recorded boundaries | `restore`, `SnapshotVerifier` | a crash at any boundary | every reachable state restores |
| Queries and budgets (`work.rs`) | saved work, receipts | resume, spend | a receipt used after the state moved | used only on the state it was made for |
| Visibility, trace (`visibility.rs`, `trace.rs`, `history.rs`) | knowledge, journal | project, append | | |

### Deck builder (`packages/deck-builder`)

An HTTP server, an MCP server for agents and a command line share one SQLite
file. A request is one synchronous call on one connection, inside a savepoint:
requests of one process do not interleave, but a request is a batch that may be
refused or die half way, and what it was planned on may be an earlier revision.

| Part | State | Operations | What is hard | What makes it correct |
|---|---|---|---|---|
| Membership and undo (`deck/membership.ts`) | `deck_cards`, `decks.revision`, identity, `log`, `log_cards` | `applyChanges` (add, cut, park, role), `undo`, `setQuantity`, `edit_cards` | batches refused in the middle; undo plans against the present rows | all or nothing; one revision and one entry per act; the log explains the deck; undo restores |
| Proposals (`deck/proposals.ts`) | `proposals`, `proposal_items` | create, amend, withdraw, accept (items, group, batch), reject | the deck moves between proposal and decision | groups are units; a decision is logged once and stands; nothing stale is applied unacknowledged |
| Deck service (`deck/service.ts`) | category, slots, tags, maybe list | organise, classify | changes no revision | archived decks are frozen; no card is filed in a slot that is gone |
| Forks and interchange (`fork.ts`, `interop.ts`) | parent links | fork, merge, import, export | import over a deck that moved | |
| Document edits (`documents.ts`), memory (`memory.ts`) | pending edits, memories | propose, rule; supersede, retire, restore | stale baselines | |
| Playtest (`playtest/`, `commands.ts`, client `usePlaytest.ts`, `transport.ts`) | session, version, undo and redo, receipts; drafts and queues | actions, drafts, observations | lost and repeated requests, a write queue on the client | saved once; the client converges |
| Jobs, locks, backups (`jobs.ts`, `refresh.ts`, `process-lock.ts`, `backups.ts`) | job rows, lease rows, lock file | run, finish, take over, swap the database | several processes; a lease that outlives its holder | one holder at a time |
| Accounts, transports, search, prices, statistics | | | read-only or delegated | |

The oracle parser (`packages/oracle-parser`), the spell compiler and the
contracts are pure functions over text and JSON; the web application renders;
the ingestion scripts move files. They keep no state that these models could
tell apart. `packages/game-server` is a document.

## Modules

    PriorityStack            the kernel
      PriorityStackInvariant   its inductive invariant
      PriorityStackHistory     two history variables: what was seen by those who passed, and before a cast
        PriorityStackHistoryInvariant   its inductive invariant, over PriorityStackInvariant
          PriorityStack_proofs     theorems of both      (FiniteOrders)
      Scenarios                the admitted tables, used by
        MCPriorityStack, MCPriorityStackHistory
    TurnCombat               the kernel's turns, combat and commander returns
      TurnCombatInvariant      its inductive invariant
        TurnCombat_proofs        theorems      (FiniteOrders)
        MCTurnCombat
    DeckMembership           a deck: rows, slots, category, log, undo
      DeckLedger               what its readers rely on: one act at a time (instantiated)
      DeckInvariant            its inductive invariant
        DeckMembership_proofs    theorems, and that DeckMembership implements DeckLedger
      DeckHistory              one history variable: what the last entry changed
        DeckHistoryInvariant     its inductive invariant, over DeckInvariant
          DeckHistory_proofs       theorems      (DeckMembership_proofs)
        MCDeck
      DeckProposals            proposals over it
        ProposalReview           one history variable: what each proposal was written against
          ProposalInvariant        its inductive invariant, over DeckInvariant
            ProposalReview_proofs    theorems      (DeckMembership_proofs, FiniteOrders)
          MCProposals
    PlaytestTable            what an action does to a playtest's table (pure)
      Playtest                 the service, the command boundary, the windows, the network
        PlaytestInvariant        its inductive invariant
          Playtest_proofs          theorems      (FiniteOrders)
        MCPlaytest
    Jobs                     the server, its jobs, commands, and the restore
      JobsInvariant            its inductive invariant
        Jobs_proofs              theorems
        MCJobs
    Positions                lists: some positions in order, or without some members;
                             used by DeckProposals and PlaytestTable
      FiniteOrders             that finite sets have greatest and least elements, and orders

### PriorityStack

The profiles without turns: `land_return`, `casting_reversal`,
`stack_response`. State variables have the names of the fields of `State`;
`frame`, `cast` and `resolving` are the tag and the two payloads of `Frame`.
`Submit` is `Game::respond`, `Concede` is `Game::concede`, and every other
action is one iteration of `Game::advance`: one action for each frame and
answer in `Game::step`, `Departure` and `LastDeparture` for a queued departure (`begin_departure` and
`finish_departure` and all they call, or the end of the game), and
`Fault` for a rule step that fails. A departure is applied before anything else,
as `step` does. `PriorityLeft`, `PassesLeft`, `FrameLeft` and their like say what
a departure makes of each field.

The stack is the set of its instances; `Game::top` is the greatest StackId.
`FinishSpell`'s `NextLive(0, ..)` is `next_live(turn_owner)`: in these profiles
the turn owner is seat 0. A step that fails stops the game (`Fault`). `StepFails` says of each
frame and answer when the code's step returns an error: an answer that is not one to the frame, an
activation or a reversal that is refused (a reversal by a departure too), a completion with nothing to complete. Only one of
these is reachable, a round of passes that ends on an empty stack, by a pass or by a departure (`FaultsOnlyOnEmptyStack`).

### DeckMembership and DeckProposals

`rows` is `deck_cards`, the deck and its maybe list together. A request starts
(`Begin`) by planning its changes against the rows it reads; then each change is
applied (`ApplyAdd`, `ApplyCut`, `ApplyRole`) or refuses the request (`Refuse`),
the process may die (`Crash`), and `Land` is the end of `applyChanges`: the
revision, the identity, the entry, `undone_by`. `saved` is the outermost
savepoint, brought back by `Refuse` and `Crash`; it is also the deck as any
other reader sees it while the request runs. A batch of acceptances is several
acts under one savepoint. `DeckLedger` is the same deck for a reader: an act
is a single step, with any cards that fit, one revision and one entry. The
refinement mapping is `Committed`: the rows and log themselves between requests,
the savepoint's while one runs (`RequestsAreAtomic`). It is stated of the requests of
`DeckMembership`, which are single acts. The rest of the deck's operations (slots, filing, maybe list,
category) are single steps.

Undo is `ReversalOf`: newest row first, then demotions, then promotions; rows
the deck has moved past are skipped, exactly where the code skips them.

`DeckProposals` adds the proposals, and marks items in the step that lands the
act they belong to. Its `Finish` is `Land` and the marks; `Abandon` gives back the
marks with the rest.

Left out of the deck models: tags (which follow a card as secondary slots do),
notes, reasons, summaries, prices; imports; several fields changed by
one HTTP `PATCH` (each field is a request of its own); the optional slots of the
owner's add beyond the primary (`OrganizeCard` files them). Anyone who may amend
or withdraw a proposal can always do so, so authors are left out. Undo does not
bring back the note of a shortlisted card that was promoted, and it leaves a
parked card filed where the promotion put it; `UndoRestores` is about copies, role, deck
or maybe list, and filing in the deck. Nor does it speak about entries that
touch one card twice: taking out and adding back a card in one entry
loses its slots for good.

### TurnCombat

The frames of the profiles that have turns: one action for each step that a turn enters
(`EnterUntap` to `EnterQuietly`), for the transition to the next one (`Transition`), for each
combat frame (`DeclareAttackers`, `DeclareBlockers`, `CombatDamage`, `Discard`,
`ClearDamage`) and for a round of stabilization (`Wave`, and `Settle` when there is nothing
left to do). `Leave` is `begin_departure` and `Depart` the whole of
`finish_departure`; `Resumed` says how a frame goes on after a departure
(combat.rs:511). A wave in which several players lose applies their departures one
after another, which with default controllers comes to the same as the code's all at once.
A commander that is fresh in a graveyard or in exile suspends whichever frame is
running (`OfferReturn`) and `AnswerReturn` resumes it.

Nobody casts here: spells and mana are `PriorityStack`'s, and a game with both is not
modelled. Hands and libraries are counted, since all their cards are basic lands; the turn
number, tax and the damage ledger are left out. No control effect exists outside the
tests. Life and damage are sums of which only the sign matters. The frame `Draw` by itself is
reached only by the private fixtures of the code's tests.

### Playtest

`PlaytestTable` is `applyAction` of `playtest/model.ts` as one operator, `Outcomes`: the tables an
action may lead to, none when it is refused. In `Playtest` the service stores one session
with its histories of undo and redo and its version, `Execute` is the command boundary of
`commands.ts` (a key that is known is answered from its receipt), and a window is
`usePlaytest.ts`: it sends its queue one job at a time, tries each request twice with one key
(`transport.ts`), reloads when it is told that something changed, and keeps what its
user types. The network loses a request (`Lose`) or the
connection (`Break`), and a request given up may still arrive. A *plan* is what the users will do
and how often the network fails; it is part of the initial state. What a window keeps of unsaved text in
the browser's storage, under the session and version it was typed at, is the set `scratch`.

A receipt is good for a day (commands.ts:66 refuses the key afterwards, though it was carried out). The transport's retry follows
its failure at once, so receipts do not expire here, and `RefusalsAreTrue` is about retries within the day.

The deck does not change meanwhile, so `deck_revision` is left out; so are the selection,
what is pinned, which zone is viewed and the card an observation is about. Life stands for the
fields that an action only sets. Known and left to the application: `start()`
overwrites text that is typed while it runs (the property names that exception); two windows
with different drafts write theirs in turn for as long as both are told of each other; after a failed
draft write, a later action that succeeds shows "saved".

### Jobs

The server queues refreshes and backups (`Boot`, `Tick`, `Enqueue`), `Pump` starts one
in a child, and the child or a command run by hand goes through `runJob`: `Open`, `Acquire` the
lease, `Begin`, `Record`, `Release`. `Closed` is `finish`, and its failure: the note that a child failed is itself a write to
the database, and when that fails (another process holds it for longer than the busy timeout) `finish` throws before
`active = null`, its caller logs `job_record_failed`, and the server keeps waiting for a child that is
gone (`Stalled`). Nothing is started any more, and `close()` waits as well, until the process is killed.
`QueuedJobStarts` names that as the one exception; without it TLC reports a server that boots and starts a job, whose
child is killed, `Closed` without the note, and nothing thereafter. OPERATIONS.md:30-33 promises a retry an hour after a failed
refresh or backup and does not mention it. The restore is
`StartRestore` (a copy, cleaned), `LeaseForRestore`, `Swap` or `GiveUp`. Every
process has open the file that was in place when it opened it, so the model has several
files, and `db` the meta table of each. Anything may be killed between two
steps. Time is the age of each stamp, which saturates (`Later` is an hour); `Hour`, `LockMaxAge` and
`Aged` keep the order of the code's hour, two hours and beyond.

The process lock that keeps a server and a restore apart is a guard (`srv = Down`, `rst.pc =
"none"`); the calls to the file system inside `acquireProcessLock` are not modelled. `Swap` is the rename and the removal of the
old `-wal` and `-shm` after it: the checkpoint just before has emptied the log, so the removal itself
loses nothing, and what SQLite does to a process that opens the restored file between the two calls and has its own new log
unlinked is not something this code says.

## Runs

| Run | Instance | What it shows |
|---|---|---|
| `response` | the scenario `stack_response`: four seats, a three-seat table's cards, up to 4 spells; its whole space, 879,706 states | types; every state restores (`validate_state`); a round of passes goes round the table without skipping or asking twice; mana is conserved; the only rule step that fails is the end of a round on an empty stack |
| `three_seats` | three seats, three spells, a land whose mana pays for none, with history; 74,839 states | what holds between any two rule steps while players leave in the middle of a cast or a resolution; the stack is whole; a spell resolves only after all remaining players passed on the table as it is; a cast given up leaves no trace; `advance` always returns and every queued departure is applied |
| `turns` | three seats, four creatures, one a commander under another seat's control, one card in most libraries, hands of at most one; 267,109 states | a whole game: departures and simultaneous losses in every frame leave nobody behind; every question has somebody there with an answer; priority only over a settled table; the game ends |
| `deck_membership` | one card, two slots, log of 3; 1.06 million states up to the symmetry of the slots | one card through every zone, slot and category; undo of the last entry restores the card though slots were deleted |
| `deck_partners` | three cards, no slots, log of 3; 505,600 states | the command zone never overflows, by any path; no entry is undone twice; the log adds up to the deck; requests are atomic to their readers (`DeckLedger`) |
| `proposals` | two cards (two copies each), two proposals of two items, log of 3; 488,669 states | groups, decisions, batches, amendments; failures and crashes in the middle of a batch |
| `playtest` | ten plans over two cards and a token, one or two windows, up to two failures; 399,099 states | stored frames can be read back after any moves, undos and mulligans; a version names one table; an observation is saved once; refusals are true; typing survives lost answers, conflicts and reloads |
| `jobs` | two processes and two files, two kills, commands or restores; 198,443 states | at most one job is within its lease; a restore is clean and strands nobody; what is queued is started, unless the note of a failed child was lost |
| `turns_fault`, `deck_undo_refused`, `proposals_deleted_slot`, `proposals_parking` | | counterexamples, see Findings |

*Why these bounds.* The kernel's scenarios are the admitted ones, complete; three
seats are the fewest where a departure leaves a round to finish, and the
theorems cover the rest. In `turns` a hand of two meets a limit of one (seven in the
code), so that cleanup discards; two attackers and two blockers are enough for a split either
way; seats of different life die by the same blow or in different turns. The command zone holds two cards, so three compete for
it. Three log entries are an entry to build on, the entry in question and its
undo, or a change, a proposal's acceptance and a second, stale one; a batch of two
acceptances on a deck that one edit made is three as well. A plan of `playtest` is one
user's intentions, the smallest for each pair of things that may cross (a
write and a reload, a save and its retry, a start and a draft, two windows), and the versions stop at
`MaxVersion` where windows are open. In `jobs` two processes are one that outlives its
lease and one that takes it over, and two files are the old and the restored. A run of the deck stops when its log is
full, and a game ends, so deadlock is not checked; that the kernel is never stuck is
`SomeoneCanAnswer` and `AdvanceReturns`.

*Fairness.* `FairSpec` is weak fairness of the kernel's rule steps: the host
calls `Game::advance`, whose loop (engine.rs:1194) takes the next step as long as there is
one. Nothing obliges a player to answer or to concede, so no fairness is assumed of
`Submit` and `Concede` there. `GameEnds` of `TurnCombat` does assume that whoever is asked answers
something: it is about the automatic frames, which must not go round in circles, and
about libraries, which run out. `Jobs` assumes that something goes on (`Progress`): a process takes
its next step and its work ends, for its downloads time out, or the server's interval of 30 seconds
fires, or it hears of its child, or time passes. Nobody has to boot a server, run a command or restore. The deck and the
playtest claim no liveness: a request is a synchronous call, and a network may lose everything.

## Findings

1. *An entry that cannot be undone* (`deck_undo_refused`). `edit_cards` with a
   card in both `add` and `commanders` logs an add and a role change of it. Undo plans
   the cut first and the demotion last, and the demotion fails because the card
   is gone. The counterexample is the smallest: one card, one edit, one undo.
2. *A deleted slot fails an accept* (`proposals_deleted_slot`). A proposal files
   a card under `s1` with `s2` as secondary; the card is meanwhile shortlisted under `s2`. While
   `s1` exists the accept succeeds; once it is deleted, the primary falls back
   to the row's `s2`, which is also secondary, and the accept is refused.
3. *Parking several copies* (`proposals_parking`). Accepted in one batch, a
   proposal that adds a copy makes the next one's `to_maybe` take both copies
   out, which creation would have refused.
4. *A kept answer meets another question* (`turns_fault`). A player plays a land, and another who
   controls a third player's commander concedes before the play is consumed. The play is still valid and
   kept (multiplayer.rs:433); the departure exiles the commander, stabilization offers its
   return, and `answer_commander_return` takes the land play: "commander return
   response invariant", and the game stops at a fault. A pass in its place does the same.

## Proofs

`PriorityStack_proofs` proves for every number of seats from two, every finite
deck and ownership, every colour and stack bound (the assumptions named in
`PriorityStack`) that the safety invariants hold of `Spec`. All theorems follow from one,
`Invariance`: `IInv` of `PriorityStackInvariant` is inductive. There is one lemma
for each action (`PassKeeps`, `CastKeeps`, `DepartureKeeps`, ...), and a few for
what the actions share.

The properties alone are not inductive. `IInv` adds:

- `QueueIsSound`: nobody is queued to leave twice and somebody stays.
  Otherwise the last player could leave and nobody would be asked.
- `TableIsSound`: the stack is finite (so that it has a top) and tapped lands are
  on the battlefield.
- `CastIsReversible`: in a cast, what its lands produced is still in the caster's pool. Then
  `reverse_cast` never fails.
- `ResolvingIsTargeted`: a spell being resolved has a target.

`FaultsOnlyAtTheEnd` follows from `IInv` frame by frame: `PendingStillValid` leaves no answer that a frame cannot take,
`CastIsReversible` no reversal that fails, and `StackIsWhole` no completion without its spell; what remains is a pass or a
departure that ends a round while the stack is empty.

Two properties about whole rounds and pools are proved on top of `IInv`, each inductive with it:

- `PassesAlwaysGoRound`. Seats are compared by how far they sit from the asked player (`Turn`); moving the
  question to the next remaining player shifts every distance by the same amount but those of the seats
  that come before (`RoundGoesOn`, `RoundSkipsLeaver`), so who has passed stays an unbroken row behind the asked one.
  A departure takes seats out of that row and may move the question past them.
- `ManaIsAccounted`, from the hypothesis `LandsAreOwn`: every land is controlled by its owner. That is
  so in every scenario the engine admits (engine.rs, `ScenarioConfig`). It is needed: were a land
  another's, its owner's departure would take the land and leave its mana in the controller's pool. The argument is a count: what one tap, payment, reversal or
  departure does to the set of tapped lands and to that of paid spells.

The rest of `PriorityStack_proofs` proves what the kernel's two memories stand for, for every table and deck:
`RoundsAreUnanimous` (a spell starts to resolve only when every remaining player has passed on the very table there is) and
`ReversalsLeaveNoTrace` (a cast given up leaves the table and the round it began on). Both speak of two tables that departures lie
between, so they need an invariant that does, `HInv` of `PriorityStackHistoryInvariant`, over `IInv` and `PassesGoRound`:

- `PassesSawThis`: whoever's pass counts saw the present table, but for the cards of players who left since and the permanents
  they controlled.
- `CastHidesThat`: while a cast is under way, the table it began on, and the one seen by each player whose pass it would
  bring back, is the present one with *the cast taken back*: its card in hand, its lands untapped, their mana out of the pool,
  its instance off the stack (`ZoneBack`, `ManaBack`).

Then `reverse_cast` needs no argument of its own, and the one case that does is a departure in the middle of a cast
(`BackAfterDeparture`): taking the cast back and letting a player leave commute, whether the caster, the target's owner or the
owner of a tapped land leaves. TLC checks `HInv` over the instance of the run `three_seats`.

`Game::top` and `Game::next_live` choose a greatest and a nearest element; that these exist for
any finite non-empty set (`GreatestExists`, `LeastExists`) is proved in `FiniteOrders`
from well-foundedness of the strict subset relation on finite sets, since
induction with an operator parameter is not available. In the same way `OrderExists` shows
that any finite set of positions can be listed in order: a longest ascending list of members leaves none out.
`InOrderFacts` is what `Array.filter` (`Excluding`) and lists of changes in the order of their items rest on.

`TurnCombat_proofs` proves for every number of seats from two, any finite set of creatures with
any owners, controllers and strengths, any lives, hands and libraries, that what departs holds nothing, that priority is only granted
over a settled table, that whoever is asked is there and that whoever is asked has an answer. `IInv` adds to the properties:

- `SomebodyStays`: fewer departures are queued than players remain. Otherwise a wave of losses and the
  queue together could empty the table without ending the game.
- `FrameIsCurrent`: whom and what a suspended frame is about is still there. This is what `Resumed` has to restore
  after each departure.
- `PendingIsUsable`: what a rule step takes from an accepted answer is still there.

That a question also has an *answer* (`QuestionsCanBeAnswered`) comes down to this: damage can be divided among any
blockers (`DamageCanBeDivided`), all of it going to one of them. The sum is a fold, and the prover has no induction over
data; but the sums of that one division are known (`SumOfOne`): a smallest set of blockers for which the fold were
anything else leads to a smaller one.

`Jobs_proofs` proves, for any number of processes and files and any ages, that the lease excludes
and that a swap is clean. Its `IInv` says what a lease that has not lapsed tells: it stands in the file its
holder has open, as old as the holder believes (`LeaseIsOwn`, `RestoreLeaseIsOwn`), and the copy a
restore has made is nobody's, unleased, and tells of no running job (`CopyIsClean`). The
first is what makes the token in the release necessary: a job whose lease lapsed comes back to find another's.
`Untouched` holds what the actions share that neither take a lease nor swap files.

`DeckMembership_proofs` does the same for a deck: any finite sets of cards and
slots, any requests that `edit_cards` may be given, any length of the log, from
`DataAssumption`. Its `IInv` (in `DeckInvariant`) adds to the properties:

- `SavedIsSound`: what the savepoint holds satisfies them too. Otherwise a
  refusal or a crash could bring back a deck that does not.
- `IdentityFollows`: before anything is logged the identity is that of the
  command zone. A request that changed nothing does not recompute it.
- `ActsAreSound`: a running undo is alone, and its entry is still not undone
  when it lands. Otherwise `undone_by` could be overwritten.
- `RequestIsLawful`: the deck stays editable while a request runs, and what the
  rows have changed since the savepoint is logged or about to be. This is what
  makes the permission rule of single changes one of whole requests.

`ApplyingKeeps` and `FilingKeeps` hold what the actions that change one row
share. A batch's changes are applied in the order of their positions; that a next
one exists (`LeastNat`) follows from well-foundedness of the naturals.

The last part of `DeckMembership_proofs` is that `DeckMembership` implements `DeckLedger`: Init maps
to Init; beginning, applying, refusing and crashing are stutters; landing is
`Act`; the organisation is `Organise` or `Classify`. It needs one more invariant,
`OneAct`: until its request lands, nothing but the rows has moved.

`DeckHistory_proofs` proves that the log accounts for the deck and that undo restores. Undo (`UndoAlwaysRestores`): an undo of the newest entry that lands, nothing having
changed since, leaves every row as that entry found it. The request runs change by change and plans its changes
against rows that those changes move, so the argument needs `HInv` of `DeckHistoryInvariant`, over `IInv` and `OneAct`:

- `LastIsExplained`: what a log entry tells is enough to know what it did. Each of its rows says (`Did`) what its card's row was
  and what it became, as long as no card occurs twice; while a request runs the same holds of what it has logged so far.
- `UndoGoesBack`: while the newest entry is undone, every card is in one of three stages: as the entry left it with all of its
  reversal to come (`WholeReversal`), back but for its role with the promotion to come, or back.

There is one lemma for each way back (`OutAgain`, `BackIn`, `RoleRestored`); that the cut or add of a card is applied before its
role is (`CurrentGoesBack`) is where the order of `ReversalOf` matters. Once nothing is left to apply every card is back
(`WholeReversalIsSome`: no row's reversal is empty).

The log (`LogAlwaysExplainsDeck`): between requests, the copies of every card that the entries put in and took out add up to
those in the deck. In the middle of a request the deck is ahead of its log, and a request may fail, so the invariant
(`CopiesAreLogged`) counts the gathered rows as well, and separately what the savepoint keeps. What each applied change
does to the sum follows from `Did` (`DidMoves`). The sums are folds, defined by recursion over sets of positions; what a longer list
adds to its sum (`TotalFacts`, `OneMore`) is proved without an induction theorem, from the least number of positions for which no
function, or more than one, satisfied the recursion (`FoldExists`, `FoldsAgree`). TLC checks `HInv` over the instances of
`deck_membership` and `deck_partners`.

`ProposalReview_proofs` does it for the proposals over a deck, from `ProposalAssumption` and
`DataAssumption`: any cards and slots, any proposable items, any number of proposals.
`PInv` (in `ProposalInvariant`) joins the deck's `IInv` and the properties, and adds:

- `Book`: the properties hold of a set of proposals *with a log*, and no entry names a proposal that
  does not exist. Written with parameters, because the savepoint must satisfy it too.
- `BatchIsSound`: an acceptance in a running batch rules on whole groups of pending items of one current proposal, and
  each of its items still has a change to come or one that is logged. Two of one batch are of different proposals.
  Without it `Finish` could mark an item that another act of the batch has decided.
- `SavedBookIsOpen`: the savepoint's book is sound, and the rulings it has are those the batch started from.
  This is why a failing batch takes its marks back with its rows.

The deck's lemmas (`Invariance` of `DeckMembership_proofs` and one for each action) carry over for the
steps that are the deck's. `RulingsAreFinal` and `AcceptancesAreLawful` are action properties of the deck and
the proposals as a reader sees them between requests. `RInv` adds `ReviewedIsCurrent` for the history variable `seen`: a proposal whose base is the present
revision was written against the present cards, and an unacknowledged acceptance is of such a
proposal. It yields `AcceptancesAreReviewed`: nothing is applied unacknowledged to a deck that
differs in cards from the one the proposal was written against. TLC checks `RInv` over the full instance of the run `proposals`.

`Playtest_proofs` proves the playtest for any finite set of cards, any tokens, lives, windows, bounds and
plans (`TableAssumption`, `ZonesAssumption`, `BoundsAssumption`, `PlansAssumption`, and `NoneAssumption`: the mark of
absence is not a value). `IInv` (in `PlaytestInvariant`) adds:

- `FrameOK`, of the frame and of every frame that undo or redo may bring back: each object is in one place once, attachments are on
  the battlefield, what is chosen for the bottom is in hand. `OutcomeFacts` shows it of every action of
  `applyAction`, one lemma for each.
- `Kempt`: undo and redo histories *together* keep within the limit. That each of them does is not inductive: an undo moves a frame from one to
  the other.
- `Dated` and `Behind`: whatever a window, a receipt or the network knows of a session was shown by it or by one before,
  and only what is shown now has the present version. This is `VersionsNameTables`, and why a refused version stays refused.
- `CallOK`: everything under way under a window's key is the request the window waits for; what it is answered is true, and
  a refusal is of something that can never be done afterwards (`Hopeless`), so a duplicate that arrives later is refused as well.

`TypingStays` (an action property: what a user typed is kept or saved, with the exception named there) follows
from `IInv`, and does not hold of arbitrary typed states. TLC checks `IInv` over the full instance of the run `playtest`.

Every safety property that a passing run checks is stated by a theorem. Only model-checked are the liveness properties
`AdvanceReturns`, `DeparturesHappen`, `GameEnds` and `QueuedJobStarts`: liveness under fairness is out of this prover's reach.

## Not modelled

- *The oracle parser*, the *spell compiler* and the *contracts* are pure functions from text or JSON to a
  tree: by far most of the repository's lines, and nothing that TLC could check beyond what its grammar tests
  do over the real card texts. The same goes for search, checks, power, mana analysis and prices, which read.
- *Event batches*: their effects are in the kernel's actions. *Visibility and trace*: who knows what is data
  that the properties do not tell apart.
- *Accounts and OAuth* delegate their protocol to a library; *transports* are one synchronous call per request;
  the *web application* renders; *ingestion* and scripts move files.
- *The process lock's file*, *agent memory*, *document edits*, *forks and imports*, *the reported focus*, *replay and
  receipts* are within reach and planned.

## Plan

Done: the kernel's profiles with and without turns, membership and undo, the refinement of the atomic deck, proposals, the
playtest, jobs and restore, all with proofs.

1. The process lock over file-system steps: two processes that find the same dead holder's file, a process that dies before
   it has written its own.
2. Theorems still open: batches of several acts as a refinement of `DeckLedger` that lands them together.
3. The single-window playtest as a refinement of one shared table.
4. Agent memory (a superseded memory restored beside its replacement), document edits, which repeat the
   protocol of proposals, and the reported focus.
5. Imports, forks and merges on `DeckMembership`.
6. Replay and `SnapshotVerifier`; receipts and resumable queries.
7. A kernel with both spells and turns.
