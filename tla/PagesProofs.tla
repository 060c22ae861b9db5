---------------------------- MODULE PagesProofs ----------------------------
(***************************************************************************)
(* For any number of panels, commands and tracks, and any size of a page:  *)
(* a panel's page stays within the pages its buttons reach, and a refresh  *)
(* shows a page that exists; and every panel in the cache of messages has  *)
(* an open message.                                                        *)
(***************************************************************************)
EXTENDS QueuePages, TLAPS

\* What holds of a refresh: the page it has fitted exists in the queue it shows, and
\* the panel it is for allows it.  Panels it has still to edit are open, so that the
\* number of pages they allow does not change any more.
RefreshOK(r) ==
    /\ \A m \in refresh[r].rest \union refresh[r].target : panel[m].at # "closed"
    /\ refresh[r].at \in {"write", "edit"} =>
         /\ refresh[r].page < NumPages(refresh[r].tracks)
         /\ \A m \in refresh[r].target : refresh[r].page < panel[m].pages

\* The inductive invariant.
PInv ==
    /\ TypeOK
    /\ PageWithinNav
    /\ RefreshShowsAPage
    /\ \A m \in Panels : panel[m].at = "closed" => page[m] = 0
    /\ \A m \in cached : panel[m].at # "closed"
    /\ \A r \in Refreshers : RefreshOK(r)

\* There is always a page.
LEMMA SomePage ==
    ASSUME NEW tracks \in Nat
    PROVE  NumPages(tracks) \in Nat \ {0}
<1>1. CASE tracks < 2
  BY <1>1 DEF NumPages
<1>2. CASE tracks >= 2
  <2> DEFINE a == tracks + PageSize - 2
  <2>1. a \in Nat /\ a >= PageSize /\ PageSize \in Nat /\ PageSize > 0
    BY <1>2, PagesAssumption
  <2> HIDE DEF a
  <2>2. a \div PageSize \in Nat /\ a \div PageSize >= 1
    BY <2>1, SMTT(30)
  <2> QED BY <1>2, <2>2 DEF NumPages, a
<1> QED BY <1>1, <1>2

LEMMA BeforeIsLess ==
    ASSUME NEW n \in Nat
    PROVE  Before(n) \in Nat /\ Before(n) <= n
BY DEF Before

LEMMA InitPInv == Init => PInv
BY PagesAssumption
DEF Init, PInv, TypeOK, PageWithinNav, RefreshShowsAPage, RefreshOK, Idle, Nothing, View,
    Places, Task, Refreshers

\* The actions of a panel's task.
LEMMA PanelStep ==
    ASSUME PInv, NEW m \in Panels, Open(m) \/ Opens(m) \/ Click(m) \/ Turns(m) \/ Closes(m)
    PROVE  PInv'
<1> USE DEF PInv, TypeOK, PageWithinNav, RefreshShowsAPage, RefreshOK, Places, Task
<1>1. CASE Open(m)
  <2>1. queue \in Nat /\ NumPages(queue) \in Nat \ {0}
    BY SomePage, PagesAssumption
  <2>2. panel' \in [Panels -> Task]
    BY <1>1, <2>1 DEF Open
  <2>3. PageWithinNav'
    BY <1>1, <2>1 DEF Open
  <2>4. \A r \in Refreshers : RefreshOK(r)'
    BY <1>1 DEF Open
  <2> QED BY <1>1, <2>2, <2>3, <2>4 DEF Open
<1>2. CASE Send(m)
  BY <1>2 DEF Send, MoveTo, View
<1>3. CASE SendFails(m)
  BY <1>3 DEF SendFails, MoveTo
<1>4. CASE Register(m)
  BY <1>4 DEF Register, MoveTo
<1>5. CASE AddHandler(m)
  BY <1>5 DEF AddHandler, MoveTo
<1>6. CASE Click(m)
  <2>1. PICK button \in Buttons :
          panel' = [panel EXCEPT ![m] = [at |-> button, tracks |-> queue,
                                         page |-> @.page, pages |-> @.pages]]
    BY <1>6 DEF Click, Enabled, Buttons
  <2>2. \A k \in Panels : panel'[k].pages = panel[k].pages /\ panel'[k].page = panel[k].page
    BY <2>1
  <2>3. panel' \in [Panels -> Task]
    BY <2>1
  <2>4. \A k \in Panels : panel'[k].at = "closed" => panel[k].at = "closed"
    BY <2>1 DEF Buttons
  <2>5. UNCHANGED <<queue, cached, page, shown, handlers, added, refresh>>
    BY <1>6 DEF Click
  <2> QED BY <2>2, <2>3, <2>4, <2>5
<1>7. CASE Turn(m)
  <2>1. Turned(m) \in Nat /\ Turned(m) < panel[m].pages
    <3>1. page[m] \in Nat /\ panel[m].pages \in Nat \ {0} /\ page[m] < panel[m].pages
      OBVIOUS
    <3>2. panel[m].at \in Buttons
      BY <1>7 DEF Turn
    <3>3. CASE panel[m].at = "<<"
      BY <3>1, <3>3 DEF Turned
    <3>4. CASE panel[m].at = "<"
      <4>1. Before(page[m]) \in Nat /\ Before(page[m]) <= page[m]
        BY <3>1, BeforeIsLess
      <4>2. Turned(m) = Lesser(Before(page[m]), LastPage(m))
        BY <3>4 DEF Turned
      <4> HIDE DEF Before
      <4> QED BY <3>1, <4>1, <4>2 DEF Lesser, LastPage
    <3>5. CASE panel[m].at = ">"
      BY <3>1, <3>5 DEF Turned, Lesser, LastPage
    <3>6. CASE panel[m].at = ">>"
      BY <3>1, <3>6 DEF Turned, LastPage
    <3> QED BY <3>2, <3>3, <3>4, <3>5, <3>6 DEF Buttons
  <2> HIDE DEF Turned
  <2>2. panel' = [panel EXCEPT ![m] = [at |-> "turned", tracks |-> panel[m].tracks,
                                       page |-> Turned(m), pages |-> panel[m].pages]]
    BY <1>7 DEF Turn
  <2>3. panel' \in [Panels -> Task]
    BY <2>1, <2>2
  <2>4. PageWithinNav'
    BY <1>7, <2>1, <2>2 DEF Turn
  <2>5. \A r \in Refreshers : RefreshOK(r)'
    BY <1>7, <2>2 DEF Turn
  <2>6. panel[m].at # "closed"
    BY <1>7 DEF Turn, Buttons
  <2> QED BY <1>7, <2>1, <2>2, <2>3, <2>4, <2>5, <2>6 DEF Turn
<1>8. CASE Respond(m)
  BY <1>8 DEF Respond, MoveTo, View
<1>9. CASE RespondFails(m)
  BY SMTT(20), <1>9 DEF RespondFails, MoveTo
<1>10. CASE Expire(m)
  BY <1>10, PagesAssumption DEF Expire, Expired, MoveTo, View
<1>11. CASE ExpireFails(m)
  BY SMTT(20), <1>11 DEF ExpireFails, MoveTo
<1>12. CASE Forget(m)
  BY <1>12 DEF Forget, MoveTo, Without
<1> QED BY <1>1, <1>2, <1>3, <1>4, <1>5, <1>6, <1>7, <1>8, <1>9, <1>10, <1>11, <1>12
        DEF Opens, Turns, Closes

\* The changes of the queue.
LEMMA ChangeStep ==
    ASSUME PInv,
           \/ \E c \in Commands : Change(c) \/ EditPanics(c)
           \/ TrackEnds \/ EventStep \/ EventEditPanics
    PROVE  PInv'
<1> USE DEF PInv, TypeOK, PageWithinNav, RefreshShowsAPage, RefreshOK, Places, Task
<1>1. ASSUME NEW c \in Commands, Change(c) PROVE PInv'
  BY <1>1, PagesAssumption DEF Change, Start, Refreshers
<1>2. CASE TrackEnds
  BY <1>2, PagesAssumption DEF TrackEnds
<1>3. CASE Act
  BY <1>3, PagesAssumption DEF Act, Refreshers
<1>4. CASE SetVolume
  BY <1>4 DEF SetVolume, Start, Refreshers
<1>5. CASE SetVolumePanics
  BY <1>5, PagesAssumption DEF SetVolumePanics, Idle, Refreshers
<1>6. ASSUME NEW c \in Commands, EditPanics(c) PROVE PInv'
  BY <1>6, PagesAssumption DEF EditPanics, Idle, Refreshers
<1>7. CASE EventEditPanics
  BY <1>7, PagesAssumption DEF EventEditPanics, Idle, Refreshers
<1> QED BY <1>1, <1>2, <1>3, <1>4, <1>5, <1>6, <1>7 DEF EventStep

\* The steps of a refresh.
LEMMA RefreshStep ==
    ASSUME PInv, NEW r \in Refreshers, Refreshes(r)
    PROVE  PInv'
<1> USE DEF PInv, TypeOK, PageWithinNav, RefreshShowsAPage, RefreshOK, Places, Task
<1>1. CASE ReadCache(r)
  BY <1>1 DEF ReadCache
<1>2. CASE ReadPage(r)
  <2>1. PICK m \in refresh[r].rest :
          refresh' = [refresh EXCEPT ![r] =
                        [at |-> "write", tracks |-> @.tracks, rest |-> @.rest \ {m},
                         target |-> {m}, page |-> Fitted(r, m)]]
    BY <1>2 DEF ReadPage
  <2>2. /\ Fitted(r, m) \in Nat
        /\ Fitted(r, m) < NumPages(refresh[r].tracks)
        /\ Fitted(r, m) < panel[m].pages
    <3>1. page[m] \in Nat /\ page[m] < panel[m].pages /\ panel[m].pages \in Nat
      OBVIOUS
    <3>2. NumPages(refresh[r].tracks) \in Nat \ {0}
      BY SomePage, PagesAssumption
    <3> HIDE DEF PInv, NumPages
    <3> QED BY <3>1, <3>2 DEF Fitted, Lesser
  <2> HIDE DEF Fitted
  <2> QED BY <1>2, <2>1, <2>2 DEF ReadPage
<1>3. CASE WritePage(r)
  <2>1. PICK m \in refresh[r].target : page' = [page EXCEPT ![m] = refresh[r].page]
    BY <1>3 DEF WritePage
  <2>2. panel[m].at # "closed" /\ refresh[r].page < panel[m].pages /\ refresh[r].page \in Nat
    BY <1>3 DEF WritePage
  <2>3. page' \in [Panels -> Nat] /\ PageWithinNav'
    BY <1>3, <2>1, <2>2 DEF WritePage
  <2>4. \A k \in Panels : panel'[k].at = "closed" => page'[k] = 0
    BY <1>3, <2>1, <2>2 DEF WritePage
  <2>5. \A k \in Refreshers : RefreshOK(k)'
    <3>1. refresh[r].at = "write"
      BY <1>3 DEF WritePage
    <3> QED BY <1>3, <3>1 DEF WritePage
  <2> QED BY <1>3, <2>3, <2>4, <2>5 DEF WritePage
<1>4. CASE Edit(r)
  <2>1. NumPages(refresh[r].tracks) \in Nat \ {0}
    BY SomePage, PagesAssumption
  <2> QED BY <1>4, <2>1 DEF Edit, GoOn, View
<1>5. CASE EditFails(r)
  BY <1>5 DEF EditFails, GoOn, Without
<1>6. CASE Done(r)
  BY <1>6, PagesAssumption DEF Done, Idle
<1> QED BY <1>1, <1>2, <1>3, <1>4, <1>5, <1>6 DEF Refreshes

LEMMA PInvHolds == Spec => []PInv
<1>1. PInv /\ UNCHANGED vars => PInv'
  BY DEF vars, PInv, TypeOK, PageWithinNav, RefreshShowsAPage, RefreshOK, Places, Task
<1>2. PInv /\ [Next]_vars => PInv'
  BY <1>1, PanelStep, ChangeStep, RefreshStep DEF Next
<1> QED BY InitPInv, <1>2, PTL DEF Spec

\* Panels, refreshes and what is shown stay well formed; in particular the page of a
\* panel never falls below 0.
THEOREM PagesTypeCorrect == Spec => []TypeOK
<1>1. PInv => TypeOK
  BY DEF PInv
<1> QED BY <1>1, PInvHolds, PTL

\* However clicks and refreshes interleave, a panel stands on a page that its own
\* buttons can reach.
THEOREM PagesStayWithinNav == Spec => []PageWithinNav
<1>1. PInv => PageWithinNav
  BY DEF PInv
<1> QED BY <1>1, PInvHolds, PTL

\* However clicks and refreshes interleave, a refresh shows a page that exists in the
\* queue that it shows.
THEOREM RefreshedPagesExist == Spec => []RefreshShowsAPage
<1>1. PInv => RefreshShowsAPage
  BY DEF PInv
<1> QED BY <1>1, PInvHolds, PTL

\* A panel's task opens its message before it stores it, and leaves the cache last.
LEMMA CachedStep ==
    ASSUME TypeOK, CachedPanelsAreOpen, [Next]_vars
    PROVE  CachedPanelsAreOpen'
<1> USE DEF CachedPanelsAreOpen
<1>0. cached \subseteq Panels /\ panel \in [Panels -> Task]
  BY DEF TypeOK
<1>1. ASSUME NEW m \in Panels, NEW task, panel' = [panel EXCEPT ![m] = task],
             task.at \notin {"closed", "open", "sent", "gone"}, cached' = cached
      PROVE  CachedPanelsAreOpen'
  BY <1>0, <1>1
<1>2. ASSUME NEW m \in Panels, NEW task, panel' = [panel EXCEPT ![m] = task],
             panel[m].at \in {"closed", "open"}, cached' = cached
      PROVE  CachedPanelsAreOpen'
  BY <1>0, <1>2
<1>3. ASSUME NEW m \in Panels, NEW place, MoveTo(m, place)
      PROVE  LET task == [panel[m] EXCEPT !.at = place]
             IN  panel' = [panel EXCEPT ![m] = task] /\ task.at = place
  BY <1>0, <1>3 DEF MoveTo, Task
<1>4. ASSUME NEW m \in Panels, Open(m) \/ Send(m)
      PROVE  CachedPanelsAreOpen'
  BY <1>2, <1>3, <1>4 DEF Open, Send
<1>5. ASSUME NEW m \in Panels,
             SendFails(m) \/ AddHandler(m) \/ Respond(m) \/ RespondFails(m)
               \/ Expire(m) \/ ExpireFails(m)
      PROVE  CachedPanelsAreOpen'
  <2>1. cached' = cached
    BY <1>5 DEF SendFails, AddHandler, Respond, RespondFails, Expire, ExpireFails
  <2>2. PICK place \in {"failed", "live", "expired"} : MoveTo(m, place)
    BY <1>5 DEF SendFails, AddHandler, Respond, RespondFails, Expire, ExpireFails
  <2> DEFINE task == [panel[m] EXCEPT !.at = place]
  <2>3. panel' = [panel EXCEPT ![m] = task] /\ task.at = place
    BY <1>3, <2>2
  <2> HIDE DEF task
  <2>4. task.at \notin {"closed", "open", "sent", "gone"}
    BY <2>3
  <2> QED BY <1>1, <2>1, <2>3, <2>4
<1>6. ASSUME NEW m \in Panels, Register(m)
      PROVE  CachedPanelsAreOpen'
  BY <1>0, <1>6 DEF Register, MoveTo, Task
<1>7. ASSUME NEW m \in Panels, Click(m)
      PROVE  CachedPanelsAreOpen'
  <2>1. PICK button \in Enabled(shown[m]) :
          panel' = [panel EXCEPT ![m] = [at |-> button, tracks |-> queue,
                                         page |-> @.page, pages |-> @.pages]]
    BY <1>7 DEF Click
  <2>2. button \in Buttons /\ cached' = cached
    BY <1>7 DEF Click, Enabled, Buttons
  <2> QED BY <1>1, <2>1, <2>2 DEF Buttons
<1>8. ASSUME NEW m \in Panels, Turn(m)
      PROVE  CachedPanelsAreOpen'
  BY <1>1, <1>8 DEF Turn
<1>9. ASSUME NEW m \in Panels, Forget(m)
      PROVE  CachedPanelsAreOpen'
  BY <1>0, <1>9 DEF Forget, MoveTo, Without, Task
<1>10. ASSUME NEW r \in Refreshers, Refreshes(r)
       PROVE  CachedPanelsAreOpen'
  <2>1. cached' \subseteq cached /\ panel' = panel
    BY <1>10
    DEF Refreshes, ReadCache, ReadPage, WritePage, Edit, EditFails, Done, Without
  <2> QED BY <2>1
<1>11. CASE \/ \E c \in Commands : Change(c) \/ EditPanics(c)
            \/ TrackEnds \/ EventStep \/ EventEditPanics
  <2>1. UNCHANGED <<cached, panel>>
    BY <1>11 DEF Change, EditPanics, TrackEnds, EventStep, Act, SetVolume, SetVolumePanics,
                 EventEditPanics
  <2> QED BY <2>1
<1>12. CASE UNCHANGED vars
  BY <1>12 DEF vars
<1>13. ASSUME NEW m \in Panels, Open(m) \/ Opens(m) \/ Click(m) \/ Turns(m) \/ Closes(m)
       PROVE  CachedPanelsAreOpen'
  BY <1>4, <1>5, <1>6, <1>7, <1>8, <1>9, <1>13 DEF Opens, Turns, Closes
<1> HIDE DEF CachedPanelsAreOpen
<1> QED BY <1>10, <1>11, <1>12, <1>13 DEF Next

\* A panel that a refresh finds in the cache has a message, and a task that is not over;
\* a refresh that works with an old clone of the cache never puts one back.
THEOREM CachedAreOpen == Spec => []CachedPanelsAreOpen
<1>1. Init => CachedPanelsAreOpen
  BY DEF Init, CachedPanelsAreOpen
<1> QED BY <1>1, CachedStep, PagesTypeCorrect, PTL DEF Spec
=============================================================================
