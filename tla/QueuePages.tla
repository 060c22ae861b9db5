----------------------------- MODULE QueuePages -----------------------------
(***************************************************************************)
(* The panels that the queue command shows: messages with a page of the    *)
(* queue and four buttons.  A panel's own task turns its pages until the   *)
(* collector of its buttons times out.  Every change of the queue refreshes*)
(* all panels: the commands that change it call update_queue_messages, and *)
(* so does the ModifyQueueHandler that each queue command adds to the call.*)
(*                                                                         *)
(* The queue is its length: tracks are told apart by nothing else, and no  *)
(* property needs more to tell that a panel is out of date.  A request to  *)
(* Discord (a send, an edit, a response) may fail at any time, and so may  *)
(* the making of a page, where a track has no metadata yet: that panics.   *)
(***************************************************************************)
EXTENDS Naturals

CONSTANTS
    Panels,      \* the messages of the queue commands
    Commands,    \* commands that change the queue at the same time
    Events,      \* the event task of the call, in which ModifyQueueHandler runs
    PageSize,    \* EMBED_PAGE_SIZE
    MaxLength,   \* bound: tracks in the queue
    MaxChanges,  \* bound: changes of the queue
    MaxClicks    \* bound: clicks

ASSUME PagesAssumption ==
    /\ PageSize \in Nat \ {0}
    /\ Events \notin Commands
    /\ MaxLength \in Nat

VARIABLES
    queue,      \* the number of tracks
    cached,     \* guild_cache_map: queue_messages, as a set: each is pushed once,
                \* and in which order a refresh takes them makes no difference
    page,       \* the RwLock<usize> of each panel
    panel,      \* the task of each queue command: its place, what it read of the
                \* queue, the page it turned to and the number of pages it allows
    shown,      \* what Discord displays for each panel
    handlers,   \* ModifyQueueHandlers of the call that have not acted on the last End
    added,      \* ModifyQueueHandlers of the call
    refresh,    \* per task: a run of update_queue_messages
    changes     \* changes of the queue so far, and clicks so far

vars == <<queue, cached, page, panel, shown, handlers, added, refresh, changes>>

Refreshers == Commands \union {Events}
Buttons == {"<<", "<", ">", ">>"}

\* calculate_num_pages: the first track is thought to be shown elsewhere.
NumPages(tracks) ==
    IF tracks < 2 THEN 1 ELSE (tracks + PageSize - 2) \div PageSize

Lesser(a, b) == IF a < b THEN a ELSE b

\* Mutant: the subtraction does not saturate.
BeforeWraps(n) == n - 1

Before(n) == IF n = 0 THEN 0 ELSE n - 1

\* What create_queue_embed and create_nav_btns make visible.
View(tracks, at, pages, by) == [tracks |-> tracks, page |-> at, pages |-> pages, by |-> by]
Nothing == View(0, 0, 1, "nobody")
Expired == View(0, 0, 1, "expired")

\* create_nav_btns: the buttons that can be clicked.
Enabled(view) ==
    (IF view.page >= 1 THEN {"<<", "<"} ELSE {})
      \union (IF view.page + 1 < view.pages THEN {">", ">>"} ELSE {})

\* target holds the panel whose page is being read, written and shown.
Idle == [at |-> "idle", tracks |-> 0, rest |-> {}, target |-> {}, page |-> 0]

Init ==
    /\ queue \in 0..MaxLength
    /\ cached = {}
    /\ page = [m \in Panels |-> 0]
    /\ panel = [m \in Panels |-> [at |-> "closed", tracks |-> 0, page |-> 0, pages |-> 1]]
    /\ shown = [m \in Panels |-> Nothing]
    /\ handlers = 0 /\ added = 0
    /\ refresh = [r \in Refreshers |-> Idle]
    /\ changes = [queue |-> 0, clicks |-> 0]

-----------------------------------------------------------------------------
(* The queue command *)

MoveTo(m, place) == panel' = [panel EXCEPT ![m].at = place]

\* The queue is read under the call's lock; the number of pages is fixed here.
Open(m) ==
    /\ panel[m].at = "closed"
    /\ panel' = [panel EXCEPT ![m] =
                   [at |-> "open", tracks |-> queue, page |-> 0, pages |-> NumPages(queue)]]
    /\ UNCHANGED <<queue, cached, page, shown, handlers, added, refresh, changes>>

\* The first page is sent.
Send(m) ==
    /\ panel[m].at = "open" /\ MoveTo(m, "sent")
    /\ shown' = [shown EXCEPT ![m] = View(panel[m].tracks, 0, panel[m].pages, "panel")]
    /\ UNCHANGED <<queue, cached, page, handlers, added, refresh, changes>>

\* The response fails, or the message that was sent cannot be fetched.
SendFails(m) ==
    /\ panel[m].at \in {"open", "sent"} /\ MoveTo(m, "failed")
    /\ UNCHANGED <<queue, cached, page, shown, handlers, added, refresh, changes>>

\* The panel is stored for later edits.
Register(m) ==
    /\ panel[m].at = "sent" /\ MoveTo(m, "stored")
    /\ cached' = cached \union {m}
    /\ UNCHANGED <<queue, page, shown, handlers, added, refresh, changes>>

\* A further ModifyQueueHandler, and the collector starts.
AddHandler(m) ==
    /\ panel[m].at = "stored" /\ MoveTo(m, "live")
    /\ added' = added + 1
    /\ UNCHANGED <<queue, cached, page, shown, handlers, refresh, changes>>

\* A click on a button that is enabled: the queue is read again.
Click(m) ==
    /\ panel[m].at = "live"
    /\ changes.clicks < MaxClicks
    /\ changes' = [changes EXCEPT !.clicks = @ + 1]
    /\ \E button \in Enabled(shown[m]) :
         panel' = [panel EXCEPT ![m] = [at |-> button, tracks |-> queue,
                                        page |-> @.page, pages |-> @.pages]]
    /\ UNCHANGED <<queue, cached, page, shown, handlers, added, refresh>>

LastPage(m) == panel[m].pages - 1

\* Mutant: the next page is not bounded.
TurnedUnbounded(m) ==
    CASE panel[m].at = "<<" -> 0
      [] panel[m].at = "<"  -> Before(page[m])
      [] panel[m].at = ">"  -> page[m] + 1
      [] panel[m].at = ">>" -> LastPage(m)

\* The page that a button leads to, within the pages that Open counted.
Turned(m) ==
    CASE panel[m].at = "<<" -> 0
      [] panel[m].at = "<"  -> Lesser(Before(page[m]), LastPage(m))
      [] panel[m].at = ">"  -> Lesser(page[m] + 1, LastPage(m))
      [] panel[m].at = ">>" -> LastPage(m)

\* The page is turned under its write lock.
Turn(m) ==
    /\ panel[m].at \in Buttons
    /\ page' = [page EXCEPT ![m] = Turned(m)]
    /\ panel' = [panel EXCEPT ![m] = [at |-> "turned", tracks |-> @.tracks,
                                      page |-> Turned(m), pages |-> @.pages]]
    /\ UNCHANGED <<queue, cached, shown, handlers, added, refresh, changes>>

\* The click is answered with that page of the queue as it was when clicked.
Respond(m) ==
    /\ panel[m].at = "turned" /\ MoveTo(m, "live")
    /\ shown' = [shown EXCEPT ![m] =
                   View(panel[m].tracks, panel[m].page, panel[m].pages, "panel")]
    /\ UNCHANGED <<queue, cached, page, handlers, added, refresh, changes>>

\* The error ends the command: the panel stays in the cache.
RespondFails(m) ==
    /\ panel[m].at = "turned" /\ MoveTo(m, "failed")
    /\ UNCHANGED <<queue, cached, page, shown, handlers, added, refresh, changes>>

\* The collector times out.
Expire(m) ==
    /\ panel[m].at = "live" /\ MoveTo(m, "expired")
    /\ shown' = [shown EXCEPT ![m] = Expired]
    /\ UNCHANGED <<queue, cached, page, handlers, added, refresh, changes>>

\* unwrap panics, and the panel stays in the cache.
ExpireFails(m) ==
    /\ panel[m].at = "live" /\ MoveTo(m, "failed")
    /\ UNCHANGED <<queue, cached, page, shown, handlers, added, refresh, changes>>

\* Mutant: the test of retain is inverted.
WithoutOthers(m) == cached \intersect {m}

\* forget_queue_message.
Without(m) == cached \ {m}

\* Mutant: the task waits for a panel that a refresh has forgotten already.
ForgetCached(m) ==
    /\ panel[m].at = "expired" /\ MoveTo(m, "gone")
    /\ m \in cached /\ cached' = Without(m)
    /\ UNCHANGED <<queue, page, shown, handlers, added, refresh, changes>>

Forget(m) ==
    /\ panel[m].at = "expired" /\ MoveTo(m, "gone")
    /\ cached' = Without(m)
    /\ UNCHANGED <<queue, page, shown, handlers, added, refresh, changes>>

-----------------------------------------------------------------------------
(* update_queue_messages *)

Start(r, tracks) ==
    refresh' = [refresh EXCEPT ![r] =
                  [at |-> "start", tracks |-> tracks, rest |-> {}, target |-> {}, page |-> 0]]

\* A command changes the queue and reads it again under the same lock.
Change(c) ==
    /\ refresh[c] = Idle
    /\ changes.queue < MaxChanges
    /\ changes' = [changes EXCEPT !.queue = @ + 1]
    /\ queue' \in 0..MaxLength \ {queue}
    /\ Start(c, queue')
    /\ UNCHANGED <<cached, page, panel, shown, handlers, added>>

\* A track ends: the event task, which has no event under way, lets songbird remove
\* it and then calls the handlers of the call.
TrackEnds ==
    /\ queue > 0
    /\ refresh[Events] = Idle /\ handlers = 0
    /\ changes.queue < MaxChanges
    /\ changes' = [changes EXCEPT !.queue = @ + 1]
    /\ queue' = queue - 1
    /\ handlers' = added
    /\ UNCHANGED <<cached, page, panel, shown, added, refresh>>

\* ModifyQueueHandler::act: one handler after the other reads the queue.
Act ==
    /\ refresh[Events] = Idle /\ handlers > 0
    /\ handlers' = handlers - 1
    /\ refresh' = [refresh EXCEPT ![Events] = [at |-> "volume", tracks |-> queue, rest |-> {},
                                              target |-> {}, page |-> 0]]
    /\ UNCHANGED <<queue, cached, page, panel, shown, added, changes>>

\* The first track gets the guild's volume.
SetVolume ==
    /\ refresh[Events].at = "volume"
    /\ Start(Events, refresh[Events].tracks)
    /\ UNCHANGED <<queue, cached, page, panel, shown, handlers, added, changes>>

\* That track has ended meanwhile: unwrap panics, and the event task is lost with the
\* handlers of the call.
SetVolumePanics ==
    /\ refresh[Events].at = "volume" /\ refresh[Events].tracks > 0
    /\ refresh' = [refresh EXCEPT ![Events] = Idle]
    /\ handlers' = 0 /\ added' = 0
    /\ UNCHANGED <<queue, cached, page, panel, shown, changes>>

\* The panels are cloned under the cache's lock, which is then released.
ReadCache(r) ==
    /\ refresh[r].at = "start"
    /\ refresh' = [refresh EXCEPT ![r] = [at |-> "next", tracks |-> @.tracks, rest |-> cached,
                                          target |-> {}, page |-> 0]]
    /\ UNCHANGED <<queue, cached, page, panel, shown, handlers, added, changes>>

\* Has the page size shrunk?
Fitted(r, m) == Lesser(page[m], NumPages(refresh[r].tracks) - 1)

ReadPage(r) ==
    /\ refresh[r].at = "next"
    /\ \E m \in refresh[r].rest :
         refresh' = [refresh EXCEPT ![r] =
                       [at |-> "write", tracks |-> @.tracks, rest |-> @.rest \ {m},
                        target |-> {m}, page |-> Fitted(r, m)]]
    /\ UNCHANGED <<queue, cached, page, panel, shown, handlers, added, changes>>

\* Between the read lock and the write lock the panel may have been turned.
WritePage(r) ==
    /\ refresh[r].at = "write"
    /\ \E m \in refresh[r].target : page' = [page EXCEPT ![m] = refresh[r].page]
    /\ refresh' = [refresh EXCEPT ![r].at = "edit"]
    /\ UNCHANGED <<queue, cached, panel, shown, handlers, added, changes>>

GoOn(r) == refresh' = [refresh EXCEPT ![r] = [at |-> "next", tracks |-> @.tracks,
                                              rest |-> @.rest, target |-> {}, page |-> 0]]

\* Mutant: the edit shows the page that the lock holds by now.
EditShowsLock(r) ==
    /\ refresh[r].at = "edit" /\ GoOn(r)
    /\ \E m \in refresh[r].target :
         shown' = [shown EXCEPT ![m] =
           View(refresh[r].tracks, page[m], NumPages(refresh[r].tracks), "refresh")]
    /\ UNCHANGED <<queue, cached, page, panel, handlers, added, changes>>

Edit(r) ==
    /\ refresh[r].at = "edit" /\ GoOn(r)
    /\ \E m \in refresh[r].target :
         shown' = [shown EXCEPT ![m] =
           View(refresh[r].tracks, refresh[r].page, NumPages(refresh[r].tracks), "refresh")]
    /\ UNCHANGED <<queue, cached, page, panel, handlers, added, changes>>

\* Mutant: the edit is tried again.
EditRetries(r) ==
    /\ refresh[r].at = "edit"
    /\ refresh' = [refresh EXCEPT ![r].at = "next", ![r].rest = @ \union refresh[r].target]
    /\ UNCHANGED <<queue, cached, page, panel, shown, handlers, added, changes>>

\* A panel that cannot be edited is forgotten.
EditFails(r) ==
    /\ refresh[r].at = "edit" /\ GoOn(r)
    /\ \E m \in refresh[r].target : cached' = Without(m)
    /\ UNCHANGED <<queue, page, panel, shown, handlers, added, changes>>

\* A track that is shown has no metadata yet: the command panics.
EditPanics(c) ==
    /\ refresh[c].at = "edit" /\ refresh[c].tracks > 0
    /\ refresh' = [refresh EXCEPT ![c] = Idle]
    /\ UNCHANGED <<queue, cached, page, panel, shown, handlers, added, changes>>

\* So does the event task, which is lost with the handlers of the call.
EventEditPanics ==
    /\ refresh[Events].at = "edit" /\ refresh[Events].tracks > 0
    /\ refresh' = [refresh EXCEPT ![Events] = Idle]
    /\ handlers' = 0 /\ added' = 0
    /\ UNCHANGED <<queue, cached, page, panel, shown, changes>>

Done(r) ==
    /\ refresh[r].at = "next" /\ refresh[r].rest = {}
    /\ refresh' = [refresh EXCEPT ![r] = Idle]
    /\ UNCHANGED <<queue, cached, page, panel, shown, handlers, added, changes>>

-----------------------------------------------------------------------------
Opens(m) == Send(m) \/ SendFails(m) \/ Register(m) \/ AddHandler(m)
Turns(m) == Turn(m) \/ Respond(m) \/ RespondFails(m)
Closes(m) == Expire(m) \/ ExpireFails(m) \/ Forget(m)
Refreshes(r) ==
    ReadCache(r) \/ ReadPage(r) \/ WritePage(r) \/ Edit(r) \/ EditFails(r) \/ Done(r)

EventStep == Act \/ SetVolume \/ SetVolumePanics

Next ==
    \/ \E m \in Panels : Open(m) \/ Opens(m) \/ Click(m) \/ Turns(m) \/ Closes(m)
    \/ \E c \in Commands : Change(c) \/ EditPanics(c)
    \/ TrackEnds \/ EventStep \/ EventEditPanics
    \/ \E r \in Refreshers : Refreshes(r)

Spec == Init /\ [][Next]_vars

\* Every task goes on when it can, requests to Discord are answered, and the timer
\* of a collector runs whatever is clicked.
Fairness ==
    /\ \A m \in Panels : WF_vars(Opens(m)) /\ WF_vars(Turns(m)) /\ WF_vars(Closes(m))
    /\ \A r \in Refreshers : WF_vars(Refreshes(r))
    /\ WF_vars(EventStep)

FairSpec == Spec /\ Fairness

-----------------------------------------------------------------------------
Places == {"closed", "open", "sent", "stored", "live", "turned", "expired", "gone", "failed"}

Task == [at : Places \union Buttons, tracks : 0..MaxLength, page : Nat, pages : Nat \ {0}]

\* The state is well formed, and no number leaves its range.
TypeOK ==
    /\ queue \in 0..MaxLength
    /\ cached \subseteq Panels
    /\ page \in [Panels -> Nat]
    /\ panel \in [Panels -> Task]
    /\ shown \in [Panels -> [tracks : 0..MaxLength, page : Nat, pages : Nat \ {0},
                             by : {"nobody", "panel", "refresh", "expired"}]]
    /\ handlers \in Nat /\ added \in Nat
    /\ refresh \in [Refreshers -> [at : {"idle", "volume", "start", "next", "write", "edit"},
                                   tracks : 0..MaxLength, rest : SUBSET Panels,
                                   target : SUBSET Panels, page : Nat]]

\* Whatever clicks and refreshes interleave, and although a refresh may undo a click
\* between its read and its write, a panel never stands on a page beyond those that its
\* buttons can reach: `num_pages - 1' in the nav loop and in the refresh agree.
PageWithinNav ==
    \A m \in Panels : page[m] < panel[m].pages /\ panel[m].page < panel[m].pages

\* What a refresh shows is a page that exists in the queue it shows (the page it
\* fitted, not the one that the panel has been turned to meanwhile).
RefreshShowsAPage ==
    \A m \in Panels :
      shown[m].by = "refresh" => shown[m].page < NumPages(shown[m].tracks)

\* A panel is in the cache only after its message was sent and before its task is over,
\* although refreshes work with clones of the cache and forget panels, too.
CachedPanelsAreOpen ==
    \A m \in cached : panel[m].at \notin {"closed", "open", "sent", "gone"}

\* Every panel that was stored is forgotten in the end, or its task has failed.
PanelsClose ==
    \A m \in Panels : panel[m].at = "stored" ~> panel[m].at \in {"gone", "failed"}

\* Every refresh comes to an end and no handler stays due, however many panels there
\* are and whatever fails.
RefreshesEnd ==
    /\ \A r \in Refreshers : refresh[r] # Idle ~> refresh[r] = Idle
    /\ handlers > 0 ~> handlers = 0
=============================================================================
