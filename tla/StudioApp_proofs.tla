-------------------------- MODULE StudioApp_proofs --------------------------
(***************************************************************************)
(* Proofs about the page of the Objective 1 workbench: its type invariant, *)
(* that its buttons alone never have two calls under way at once, and that *)
(* what it shows is what the device said, in order.                        *)
(***************************************************************************)
EXTENDS StudioApp, SequenceTheorems, TLAPS

-----------------------------------------------------------------------------
(* Pages.                                                                  *)

LEMMA FunctionIsSeq ==
    ASSUME NEW S, NEW n \in Nat, NEW f \in [1 .. n -> S]
    PROVE  f \in Seq(S) /\ Len(f) = n
<1>1. f \in Seq(S)
  BY SeqDef
<1>2. DOMAIN f = 1 .. n /\ Len(f) \in Nat /\ DOMAIN f = 1 .. Len(f)
  BY <1>1, LenProperties
<1> QED
  BY <1>1, <1>2

BoundedPage == {page \in Page : Len(page.history) <= HistoryLimit}

LEMMA FreshPageType ==
    ASSUME NEW v \in Vector
    PROVE  FreshPage(v) \in BoundedPage
  BY StudioAssumption, EmptySeq DEF FreshPage, BoundedPage, Page, initialResponse

\* Rendering numbers entries and leaves the rest.
LEMMA RenderedType ==
    ASSUME NEW page \in BoundedPage, NEW n \in Nat
    PROVE  Rendered(page, n) \in BoundedPage /\ Rendered(page, n).busy = page.busy
<1> DEFINE h == page.history
           g == [i \in DOMAIN h |->
                    IF h[i].cycle = Unnumbered THEN [h[i] EXCEPT !.cycle = n] ELSE h[i]]
<1>1. page \in Page /\ h \in Seq(Entry) /\ Len(h) <= HistoryLimit /\ Len(h) \in Nat
  BY LenProperties DEF BoundedPage, Page
<1>2. \A i \in 1 .. Len(h) : h[i] \in Entry
  BY <1>1, ElementOfSeq
<1>d. DOMAIN h = 1 .. Len(h)
  BY <1>1, LenProperties
<1>3. ASSUME NEW i \in 1 .. Len(h)
      PROVE  g[i] \in Entry
  <2>1. h[i] \in Entry /\ i \in DOMAIN h
    BY <1>2, <1>d
  <2>2. [h[i] EXCEPT !.cycle = n] \in Entry
    BY <2>1 DEF Entry
  <2> QED
    BY <2>1, <2>2
<1>4. DOMAIN g = 1 .. Len(h)
  BY <1>d
<1>5. g \in [1 .. Len(h) -> Entry]
  BY <1>1, <1>3, <1>4
<1>6. g \in Seq(Entry) /\ Len(g) = Len(h)
  <2> HIDE DEF g, h
  <2> QED
    BY <1>1, <1>5, FunctionIsSeq
<1>7. Rendered(page, n) = [page EXCEPT !.history = g]
  BY DEF Rendered
<1> QED
  BY <1>1, <1>6, <1>7 DEF BoundedPage, Page

\* The waveform never outgrows its limit.
LEMMA HistoryAfterType ==
    ASSUME NEW h \in Seq(Entry), Len(h) <= HistoryLimit, NEW e \in Entry
    PROVE  HistoryAfter(h, e) \in Seq(Entry) /\ Len(HistoryAfter(h, e)) <= HistoryLimit
<1>1. Len(h) \in Nat /\ HistoryLimit \in Nat \ {0}
  BY LenProperties, StudioAssumption
<1>2. CASE Len(h) < HistoryLimit
  BY <1>1, <1>2, AppendProperties DEF HistoryAfter
<1>3. CASE ~ (Len(h) < HistoryLimit)
  <2> DEFINE m == Len(h) - HistoryLimit + 2
             k == SubSeq(h, m, Len(h))
  <2>1. m = 2 /\ Len(h) = HistoryLimit
    BY <1>1, <1>3
  <2>2. k \in Seq(Entry) /\ Len(k) = Len(h) - 1
    BY <1>1, <2>1, SubSeqProperties
  <2>3. HistoryAfter(h, e) = Append(k, e)
    BY <1>3 DEF HistoryAfter
  <2> QED
    BY <1>1, <2>1, <2>2, <2>3, AppendProperties
<1> QED
  BY <1>2, <1>3

LEMMA BegunType ==
    ASSUME NEW page \in BoundedPage
    PROVE  Begun(page) \in BoundedPage /\ Begun(page).busy = TRUE
  BY DEF Begun, BoundedPage, Page

LEMMA TurnType ==
    ASSUME NEW page \in BoundedPage, NEW n \in DOMAIN Presets
    PROVE  Turn(page, n) \in BoundedPage
<1>1. Presets[n] \in Vector
  BY StudioAssumption, ElementOfSeq, LenProperties
<1>2. [page EXCEPT !.vector = Presets[n]] \in BoundedPage
  BY <1>1 DEF BoundedPage, Page
<1> QED
  BY <1>2, BegunType DEF Turn

LEMMA SucceededType ==
    ASSUME NEW page \in BoundedPage, NEW v \in Vector, NEW d \in Nat
    PROVE  Succeeded(page, v, d) \in BoundedPage
<1> DEFINE e == [vector |-> v, telemetry |-> d, cycle |-> Unnumbered]
<1>1. e \in Entry
  BY DEF Entry, Unnumbered
<1>2. page.history \in Seq(Entry) /\ Len(page.history) <= HistoryLimit
  BY DEF BoundedPage, Page
<1>3. /\ HistoryAfter(page.history, e) \in Seq(Entry)
      /\ Len(HistoryAfter(page.history, e)) <= HistoryLimit
  BY <1>1, <1>2, HistoryAfterType
<1> QED
  BY <1>3 DEF Succeeded, BoundedPage, Page

LEMMA ClearedType ==
    ASSUME NEW page \in BoundedPage
    PROVE  Cleared(page) \in BoundedPage
<1>1. <<>> \in Seq(Entry) /\ Len(<<>>) = 0 /\ HistoryLimit >= 0
  BY StudioAssumption, EmptySeq
<1>2. initialResponse \in [vector : Vector \union {NoVector}, telemetry : Nat]
  BY DEF initialResponse
<1>3. [page EXCEPT !.response = initialResponse, !.history = <<>>, !.busy = FALSE] \in BoundedPage
  BY <1>1, <1>2 DEF BoundedPage, Page
<1> QED
  BY <1>3 DEF Cleared

LEMMA FailedType ==
    ASSUME NEW page \in BoundedPage
    PROVE  Failed(page) \in BoundedPage
  BY DEF Failed, BoundedPage, Page

-----------------------------------------------------------------------------
(* The inductive invariant.                                                *)

Success == [command : {"reset", "execute"}, telemetry : Nat]

\* What a call that is being answered, or was answered to somebody, holds.
RepliesOK ==
    \A c \in Call :
        /\ phase[c] = "served" => reply[c] \in Success
        /\ awaited[c] # "free" /\ phase[c] = "idle" => reply[c] \in Success \union {Failure}

StudioTypes == StudioTypeOK /\ DOMAIN reply = Call /\ RepliesOK

\* While no sequence has been started, a call under way keeps the page busy, so that there
\* is one at most.
ButtonsTakeTurns ==
    ~autoUsed =>
        /\ ~crossed
        /\ \A l \in Loop : position[l] = 0
        /\ \A c, d \in Call : awaited[c] # "free" /\ awaited[d] # "free" => c = d
        /\ \A c \in Call : awaited[c] # "free" => shown.busy /\ draft.busy

StudioInv == StudioTypes /\ ButtonsTakeTurns

LEMMA StudioTypesPages ==
    ASSUME StudioTypes
    PROVE  shown \in BoundedPage /\ draft \in BoundedPage
  BY DEF StudioTypes, StudioTypeOK, BoundedPage

LEMMA RequestKinds ==
    ASSUME NEW q \in StudioRequest
    PROVE  /\ q.command \in {"reset", "execute"}
           /\ q.command # "reset" => q.vector \in Vector
  BY DEF StudioRequest, ResetRequest, Execute

LEMMA StudioInitInv == StudioInit => StudioInv
<1> SUFFICES ASSUME StudioInit PROVE StudioInv
  OBVIOUS
<1> USE StudioAssumption DEF StudioInit, Backend!ServiceInit
<1>1. PICK v \in Vector : shown = FreshPage(v)
  OBVIOUS
<1>2. shown \in BoundedPage /\ draft \in BoundedPage
  BY <1>1, FreshPageType
<1>3. StudioTypeOK
  <2>1. 0 \in 0 .. Len(Presets)
    BY LenProperties
  <2>2. position \in [Loop -> 0 .. Len(Presets)] /\ alone \in [Call -> BOOLEAN]
    BY <2>1
  <2> QED
    BY <1>2, <2>2 DEF StudioTypeOK, BoundedPage
<1>4. DOMAIN reply = Call /\ RepliesOK
  BY DEF RepliesOK
<1>5. ButtonsTakeTurns
  BY DEF ButtonsTakeTurns
<1> QED
  BY <1>3, <1>4, <1>5 DEF StudioInv, StudioTypes

-----------------------------------------------------------------------------
(* The type invariant, action by action.                                   *)

\* The part of the invariant that is about calls.
CallTypes ==
    /\ awaited \in [Call -> {"free", "button"} \union Loop]
    /\ phase \in [Call -> {"idle", "asked", "served"}]
    /\ request \in [Call -> StudioRequest] /\ device \in Nat
    /\ alone \in [Call -> BOOLEAN]
    /\ synced \in BOOLEAN /\ crossed \in BOOLEAN
    /\ DOMAIN reply = Call /\ RepliesOK

PageTypes ==
    /\ shown \in BoundedPage /\ draft \in BoundedPage /\ cycle \in Nat
    /\ position \in [Loop -> 0 .. Len(Presets)]
    /\ panel \in {"absent", "idle"} \union Loop
    /\ autoUsed \in BOOLEAN

LEMMA StudioTypesSplit == StudioTypes <=> CallTypes /\ PageTypes
  BY DEF StudioTypes, StudioTypeOK, CallTypes, PageTypes, BoundedPage

LEMMA SendTypes ==
    ASSUME CallTypes, NEW c \in Call, NEW who \in {"button"} \union Loop,
           NEW q \in StudioRequest, Send(c, who, q)
    PROVE  CallTypes'
<1> USE StudioAssumption DEF CallTypes, Send, Backend!Ask
<1>1. /\ awaited' \in [Call -> {"free", "button"} \union Loop]
      /\ phase' \in [Call -> {"idle", "asked", "served"}]
      /\ request' \in [Call -> StudioRequest] /\ device' \in Nat
      /\ DOMAIN reply' = Call /\ synced' \in BOOLEAN
  OBVIOUS
<1>2. alone' \in [Call -> BOOLEAN]
  BY Zenon
<1>3. crossed' \in BOOLEAN
  BY Zenon
<1>4. RepliesOK'
  BY <1>1 DEF RepliesOK
<1> QED
  BY <1>1, <1>2, <1>3, <1>4

LEMMA RenderAtOnceTypes ==
    ASSUME NEW page \in BoundedPage, cycle \in Nat, RenderAtOnce(page)
    PROVE  /\ shown' \in BoundedPage /\ draft' \in BoundedPage
           /\ shown'.busy = page.busy /\ draft'.busy = page.busy
  BY RenderedType DEF RenderAtOnce

LEMMA ReceiveTypes ==
    ASSUME CallTypes, PageTypes, NEW c \in Call, Receive(c)
    PROVE  CallTypes' /\ PageTypes'
<1> USE DEF Receive, RenderLater
<1>1. CallTypes'
  <2>1. awaited' \in [Call -> {"free", "button"} \union Loop]
    BY DEF CallTypes
  <2>2. RepliesOK'
    BY DEF CallTypes, RepliesOK, backendVars
  <2>3. synced' \in BOOLEAN
    <3>1. alone[c] \in BOOLEAN /\ synced \in BOOLEAN
      BY DEF CallTypes
    <3>2. synced' = synced \/ synced' = alone[c]
      BY Zenon
    <3> QED
      BY <3>1, <3>2, Zenon
  <2> QED
    BY <2>1, <2>2, <2>3 DEF CallTypes, backendVars
<1>2. CASE reply[c] = Failure
  BY <1>1, <1>2, FailedType DEF PageTypes
<1>3. CASE reply[c] # Failure
  <2>1. reply[c] \in Success /\ request[c] \in StudioRequest
    BY <1>3 DEF CallTypes, RepliesOK
  <2>2. reply[c].telemetry \in Nat
    BY <2>1 DEF Success
  <2>3. draft' \in BoundedPage
    <3>1. CASE request[c].command = "reset"
      BY <1>3, <3>1, ClearedType DEF PageTypes
    <3>2. CASE request[c].command # "reset"
      BY <1>3, <3>2, <2>1, <2>2, RequestKinds, SucceededType DEF PageTypes
    <3> QED
      BY <3>1, <3>2
  <2>4. cycle' \in Nat
    BY <1>3 DEF CycleAfter, PageTypes
  <2> QED
    BY <1>1, <1>3, <2>3, <2>4 DEF PageTypes
<1> QED
  BY <1>1, <1>2, <1>3

LEMMA ServeTypes ==
    ASSUME CallTypes, PageTypes, Serve
    PROVE  CallTypes' /\ PageTypes'
<1>1. PageTypes'
  BY DEF Serve, PageTypes, pageVars, ghosts
<1>2. ASSUME NEW c \in Call, Backend!Attend(c), UNCHANGED <<pageVars, clicks, ghosts>>
      PROVE  CallTypes'
  <2> USE <1>2 DEF CallTypes, RepliesOK, pageVars, ghosts
  <2>1. CASE Backend!Serve(c)
    <3>1. request[c].command \in {"reset", "execute"}
      BY RequestKinds
    <3>2. device' \in Nat
      BY <2>1 DEF Backend!Serve, Executed
    <3>3. Answered(device', request[c]) \in Success
      BY <3>1, <3>2 DEF Answered, Success
    <3> QED
      BY <2>1, <3>2, <3>3 DEF Backend!Serve
  <2>2. CASE Backend!Refuse(c)
    BY <2>2 DEF Backend!Refuse
  <2>3. CASE Backend!Conclude(c)
    BY <2>3 DEF Backend!Conclude
  <2> QED
    BY <1>2, <2>1, <2>2, <2>3 DEF Backend!Attend
<1>3. CASE Backend!Restart /\ alone' = [c \in Call |-> FALSE] /\ synced' = FALSE
           /\ UNCHANGED <<pageVars, crossed, autoUsed>>
  <2>1. device' \in Nat /\ alone' \in [Call -> BOOLEAN] /\ synced' \in BOOLEAN
    BY <1>3 DEF Backend!Restart
  <2>2. RepliesOK'
    BY <1>3 DEF CallTypes, RepliesOK, Backend!Restart, pageVars
  <2> QED
    BY <1>1, <1>3, <2>1, <2>2 DEF CallTypes, Backend!Restart, pageVars
<1> QED
  BY <1>1, <1>2, <1>3 DEF Serve

LEMMA StudioNextTypes ==
    ASSUME StudioTypes, [StudioNext]_studioVars
    PROVE  StudioTypes'
<1> SUFFICES CallTypes' /\ PageTypes'
  BY StudioTypesSplit, PTL
<1> USE StudioAssumption
<1>0. CallTypes /\ PageTypes
  BY StudioTypesSplit
<1>a. Len(Presets) \in Nat \ {0} /\ DOMAIN Presets = 1 .. Len(Presets)
  BY LenProperties, EmptySeq
<1>b. \A n \in DOMAIN Presets : Presets[n] \in Vector
  BY <1>a, ElementOfSeq
<1>1. CASE Render
  <2>1. shown' \in BoundedPage /\ draft' \in BoundedPage
    BY <1>0, <1>1, RenderAtOnceTypes DEF Render, PageTypes
  <2> QED
    BY <1>0, <1>1, <2>1 DEF Render, PageTypes, CallTypes, RepliesOK, backendVars, ghosts
<1>2. ASSUME NEW v \in Vector, ChooseVector(v)
      PROVE  CallTypes' /\ PageTypes'
  <2>1. [draft EXCEPT !.vector = v] \in BoundedPage
    BY <1>0 DEF PageTypes, BoundedPage, Page
  <2>2. shown' \in BoundedPage /\ draft' \in BoundedPage
    BY <1>0, <1>2, <2>1, RenderAtOnceTypes DEF ChooseVector, PageTypes
  <2> QED
    BY <1>0, <1>2, <2>2 DEF ChooseVector, PageTypes, CallTypes, RepliesOK, backendVars, ghosts
<1>3. ASSUME NEW c \in Call, ExecuteCycle(c)
      PROVE  CallTypes' /\ PageTypes'
  <2>1. Execute(shown.vector) \in StudioRequest
    BY <1>0 DEF StudioRequest, PageTypes, BoundedPage, Page
  <2>2. CallTypes'
    BY <1>0, <1>3, <2>1, SendTypes DEF ExecuteCycle
  <2>3. shown' \in BoundedPage /\ draft' \in BoundedPage
    BY <1>0, <1>3, BegunType, RenderAtOnceTypes DEF ExecuteCycle, PageTypes
  <2> QED
    BY <1>0, <1>3, <2>2, <2>3 DEF ExecuteCycle, Send, PageTypes
<1>4. ASSUME NEW c \in Call, Reset(c)
      PROVE  CallTypes' /\ PageTypes'
  <2>1. CallTypes'
    BY <1>0, <1>4, SendTypes DEF Reset, StudioRequest
  <2>2. shown' \in BoundedPage /\ draft' \in BoundedPage
    BY <1>0, <1>4, BegunType, RenderAtOnceTypes DEF Reset, PageTypes
  <2> QED
    BY <1>0, <1>4, <2>1, <2>2 DEF Reset, Send, PageTypes
<1>5. ASSUME NEW c \in Call, NEW l \in Loop, AutoRun(l, c)
      PROVE  CallTypes' /\ PageTypes'
  <2>1. Execute(Presets[1]) \in StudioRequest
    BY <1>a, <1>b DEF StudioRequest
  <2>2. CallTypes'
    BY <1>0, <1>5, <2>1, SendTypes DEF AutoRun
  <2>3. shown' \in BoundedPage /\ draft' \in BoundedPage
    BY <1>0, <1>5, <1>a, TurnType, RenderAtOnceTypes DEF AutoRun, PageTypes
  <2> QED
    BY <1>0, <1>5, <1>a, <2>2, <2>3 DEF AutoRun, Send, PageTypes
<1>6. CASE OpenLab
  BY <1>0, <1>6 DEF OpenLab, PageTypes, CallTypes, RepliesOK, backendVars, ghosts
<1>7. CASE Reload
  <2>1. shown' \in BoundedPage /\ draft' \in BoundedPage
    BY <1>7, FreshPageType DEF Reload
  <2>a. 0 \in 0 .. Len(Presets)
    BY <1>a
  <2>b. position' \in [Loop -> 0 .. Len(Presets)] /\ autoUsed' \in BOOLEAN
    BY <1>7, <2>a DEF Reload
  <2>2. PageTypes'
    BY <1>7, <2>b, <2>1 DEF Reload, PageTypes
  <2>3. RepliesOK'
    BY <1>0, <1>7 DEF Reload, CallTypes, RepliesOK, backendVars
  <2>4. alone' \in [Call -> BOOLEAN] /\ synced' \in BOOLEAN /\ crossed' \in BOOLEAN
    BY <1>7 DEF Reload
  <2> QED
    BY <1>0, <1>7, <2>2, <2>3, <2>4 DEF Reload, CallTypes, backendVars
<1>8. CASE Serve
  BY <1>0, <1>8, ServeTypes
<1>9. ASSUME NEW c \in Call, Receive(c)
      PROVE  CallTypes' /\ PageTypes'
  BY <1>0, <1>9, ReceiveTypes
<1>10. ASSUME NEW c \in Call, Lose(c)
       PROVE  CallTypes' /\ PageTypes'
  BY <1>0, <1>10, FailedType
     DEF Lose, RenderLater, PageTypes, CallTypes, RepliesOK, backendVars
<1>11. ASSUME NEW l \in Loop, EndSequence(l)
       PROVE  CallTypes' /\ PageTypes'
  BY <1>0, <1>11, <1>a
     DEF EndSequence, PanelAfter, PageTypes, CallTypes, RepliesOK, backendVars, ghosts
<1>12. ASSUME NEW l \in Loop, NEW c \in Call, NextPreset(l, c)
       PROVE  CallTypes' /\ PageTypes'
  <2>1. position[l] + 1 \in DOMAIN Presets /\ position[l] \in Nat
    BY <1>0, <1>12, <1>a DEF NextPreset, PageTypes
  <2>2. Execute(Presets[position[l] + 1]) \in StudioRequest
    BY <2>1, <1>b DEF StudioRequest
  <2>3. CallTypes'
    BY <1>0, <1>12, <2>2, SendTypes DEF NextPreset
  <2>4. draft' \in BoundedPage
    BY <1>0, <1>12, <2>1, TurnType DEF NextPreset, RenderLater, PageTypes
  <2>5. position' \in [Loop -> 0 .. Len(Presets)]
    BY <1>0, <1>12, <1>a, <2>1 DEF NextPreset, PageTypes
  <2> QED
    BY <1>0, <1>12, <2>3, <2>4, <2>5 DEF NextPreset, RenderLater, Send, PageTypes
<1>13. CASE UNCHANGED studioVars
  BY <1>0, <1>13
     DEF studioVars, pageVars, backendVars, ghosts, PageTypes, CallTypes, RepliesOK
<1> QED
  BY <1>1, <1>2, <1>3, <1>4, <1>5, <1>6, <1>7, <1>8, <1>9, <1>10, <1>11, <1>12, <1>13
     DEF StudioNext, User, Wake

-----------------------------------------------------------------------------
(* Calls take turns.                                                       *)

\* A request sent while no call is under way.
LEMMA SendTakesTurn ==
    ASSUME StudioInv, ~autoUsed, NEW c \in Call, NEW who, NEW q,
           ~shown.busy, Send(c, who, q)
    PROVE  /\ crossed' = FALSE
           /\ \A d, e \in Call : awaited'[d] # "free" /\ awaited'[e] # "free" => d = e
<1>1. \A d \in Call : awaited[d] = "free"
  BY DEF StudioInv, ButtonsTakeTurns
<1>2. Waiting = {}
  BY <1>1 DEF Waiting
<1>3. crossed = FALSE
  BY DEF StudioInv, ButtonsTakeTurns, StudioTypes, StudioTypeOK
<1>4. awaited' = [awaited EXCEPT ![c] = who] /\ DOMAIN awaited = Call
  BY DEF Send, StudioInv, StudioTypes, StudioTypeOK
<1> QED
  BY <1>1, <1>2, <1>3, <1>4 DEF Send

LEMMA StudioNextTurns ==
    ASSUME StudioInv, [StudioNext]_studioVars
    PROVE  ButtonsTakeTurns'
<1> SUFFICES ASSUME ~autoUsed'
             PROVE  /\ ~crossed'
                    /\ \A l \in Loop : position'[l] = 0
                    /\ \A c, d \in Call : awaited'[c] # "free" /\ awaited'[d] # "free" => c = d
                    /\ \A c \in Call : awaited'[c] # "free" => shown'.busy /\ draft'.busy
  BY DEF ButtonsTakeTurns
<1> DEFINE Goal == /\ ~crossed'
                   /\ \A l \in Loop : position'[l] = 0
                   /\ \A c, d \in Call : awaited'[c] # "free" /\ awaited'[d] # "free" => c = d
                   /\ \A c \in Call : awaited'[c] # "free" => shown'.busy /\ draft'.busy
<1>p. shown \in BoundedPage /\ draft \in BoundedPage /\ cycle \in Nat
      /\ DOMAIN awaited = Call
  BY StudioTypesPages DEF StudioInv, StudioTypes, StudioTypeOK
<1>1. CASE Render
  <2>1. shown'.busy = draft.busy /\ draft'.busy = draft.busy
    BY <1>1, <1>p, RenderAtOnceTypes DEF Render
  <2> QED
    BY <1>1, <2>1 DEF Render, StudioInv, ButtonsTakeTurns, ghosts
<1>2. ASSUME NEW v \in Vector, ChooseVector(v)
      PROVE  Goal
  <2>1. \A c \in Call : awaited[c] = "free"
    BY <1>2 DEF ChooseVector, Enabled, StudioInv, ButtonsTakeTurns, ghosts
  <2> QED
    BY <1>2, <2>1 DEF ChooseVector, StudioInv, ButtonsTakeTurns, ghosts
<1>3. ASSUME NEW c \in Call, ExecuteCycle(c)
      PROVE  Goal
  <2>1. shown'.busy = TRUE /\ draft'.busy = TRUE
    BY <1>3, <1>p, BegunType, RenderAtOnceTypes DEF ExecuteCycle
  <2> QED
    BY <1>3, <2>1, SendTakesTurn DEF ExecuteCycle, Enabled, StudioInv, ButtonsTakeTurns
<1>4. ASSUME NEW c \in Call, Reset(c)
      PROVE  Goal
  <2>1. shown'.busy = TRUE /\ draft'.busy = TRUE
    BY <1>4, <1>p, BegunType, RenderAtOnceTypes DEF Reset
  <2> QED
    BY <1>4, <2>1, SendTakesTurn DEF Reset, Enabled, StudioInv, ButtonsTakeTurns
<1>5. ASSUME NEW c \in Call, NEW l \in Loop, AutoRun(l, c)
      PROVE  Goal
  BY <1>5 DEF AutoRun
<1>6. CASE OpenLab
  BY <1>6 DEF OpenLab, StudioInv, ButtonsTakeTurns, ghosts
<1>7. CASE Reload
  BY <1>7 DEF Reload
<1>8. CASE Serve
  BY <1>8 DEF Serve, StudioInv, ButtonsTakeTurns, pageVars, ghosts
<1>9. ASSUME NEW c \in Call, awaited[c] # "free", awaited' = [awaited EXCEPT ![c] = "free"],
             UNCHANGED <<position, crossed, autoUsed>>
      PROVE  Goal
  <2>1. \A d \in Call : awaited'[d] = "free"
    BY <1>9, <1>p DEF StudioInv, ButtonsTakeTurns
  <2> QED
    BY <1>9, <2>1 DEF StudioInv, ButtonsTakeTurns
<1>10. ASSUME NEW c \in Call, Receive(c) \/ Lose(c)
       PROVE  Goal
  BY <1>9, <1>10 DEF Receive, Lose
<1>11. ASSUME NEW l \in Loop, Wake(l)
       PROVE  Goal
  <2>1. position[l] > 0 /\ autoUsed' = autoUsed
    BY <1>11 DEF Wake, EndSequence, NextPreset, Asleep, ghosts
  <2>2. position[l] = 0
    BY <2>1 DEF StudioInv, ButtonsTakeTurns
  <2> QED
    BY <2>1, <2>2
<1>12. CASE UNCHANGED studioVars
  BY <1>12 DEF studioVars, pageVars, ghosts, StudioInv, ButtonsTakeTurns
<1> QED
  BY <1>1, <1>2, <1>3, <1>4, <1>5, <1>6, <1>7, <1>8, <1>10, <1>11, <1>12
     DEF StudioNext, User

-----------------------------------------------------------------------------
(* The waveform, while no two calls cross.                                 *)

\* h is the waveform when the counter stands at n: the last operations, numbered one by one.
IsRun(h, n) ==
    /\ Len(h) = IF n < HistoryLimit THEN n ELSE HistoryLimit
    /\ \A i \in DOMAIN h : h[i].cycle = n - (Len(h) - i)

AtMostOneAwaited ==
    \A c, d \in Call : awaited[c] # "free" /\ awaited[d] # "free" => c = d

\* The page on screen shows a waveform of some moment; what React has yet to render becomes
\* that of now, and holds no entry without a number while a call is under way.
WaveformsAreRuns ==
    ~crossed =>
        /\ AtMostOneAwaited
        /\ \E n \in Nat : IsRun(shown.history, n)
        /\ IsRun(Rendered(draft, cycle).history, cycle)
        /\ Waiting # {} => IsRun(draft.history, cycle)

LEMMA HistoryProperties ==
    ASSUME NEW page \in BoundedPage
    PROVE  /\ page.history \in Seq(Entry) /\ Len(page.history) \in Nat
           /\ DOMAIN page.history = 1 .. Len(page.history)
           /\ \A i \in DOMAIN page.history : page.history[i] \in Entry
<1>1. page.history \in Seq(Entry)
  BY DEF BoundedPage, Page
<1> QED
  BY <1>1, LenProperties, ElementOfSeq

LEMMA RenderedHistory ==
    ASSUME NEW page \in BoundedPage, NEW n \in Nat
    PROVE  LET h == page.history
               g == Rendered(page, n).history
           IN  /\ Len(g) = Len(h) /\ DOMAIN g = DOMAIN h
               /\ \A i \in DOMAIN h :
                     /\ g[i].vector = h[i].vector /\ g[i].telemetry = h[i].telemetry
                     /\ g[i].cycle = IF h[i].cycle = Unnumbered THEN n ELSE h[i].cycle
<1> DEFINE h == page.history
           g == Rendered(page, n).history
<1>1. g = [i \in DOMAIN h |->
             IF h[i].cycle = Unnumbered THEN [h[i] EXCEPT !.cycle = n] ELSE h[i]]
  BY DEF Rendered, BoundedPage, Page
<1>2. g \in Seq(Entry) /\ Len(g) \in Nat /\ DOMAIN g = 1 .. Len(g)
  BY RenderedType, HistoryProperties
<1>3. DOMAIN g = DOMAIN h /\ DOMAIN h = 1 .. Len(h) /\ Len(h) \in Nat
  BY <1>1, HistoryProperties
<1>4. Len(g) = Len(h)
  BY <1>2, <1>3
<1>5. ASSUME NEW i \in DOMAIN h
      PROVE  /\ g[i].vector = h[i].vector /\ g[i].telemetry = h[i].telemetry
             /\ g[i].cycle = IF h[i].cycle = Unnumbered THEN n ELSE h[i].cycle
  <2>1. h[i] \in Entry
    BY HistoryProperties
  <2>2. g[i] = IF h[i].cycle = Unnumbered THEN [h[i] EXCEPT !.cycle = n] ELSE h[i]
    BY <1>1
  <2> QED
    BY <2>1, <2>2 DEF Entry
<1> QED
  BY <1>3, <1>4, <1>5

\* Every entry of a run has a number, so that rendering it again changes nothing.
LEMMA RunIsNumbered ==
    ASSUME NEW page \in BoundedPage, NEW n \in Nat, IsRun(page.history, n)
    PROVE  \A i \in DOMAIN page.history : page.history[i].cycle # Unnumbered
<1> DEFINE h == page.history
<1>1. HistoryLimit \in Nat /\ Len(h) \in Nat /\ DOMAIN h = 1 .. Len(h)
  BY HistoryProperties, StudioAssumption
<1>2. Len(h) <= n
  BY <1>1 DEF IsRun
<1> QED
  BY <1>1, <1>2 DEF IsRun, Unnumbered

LEMMA RunRendered ==
    ASSUME NEW page \in BoundedPage, NEW n \in Nat, NEW m \in Nat, IsRun(page.history, n)
    PROVE  IsRun(Rendered(page, m).history, n)
<1> DEFINE h == page.history
           g == Rendered(page, m).history
<1>1. /\ Len(g) = Len(h) /\ DOMAIN g = DOMAIN h
      /\ \A i \in DOMAIN h : g[i].cycle = h[i].cycle
  BY RunIsNumbered, RenderedHistory
<1>2. IsRun(h, n)
  OBVIOUS
<1> HIDE DEF g, h
<1>3. IsRun(g, n)
  BY <1>1, <1>2 DEF IsRun
<1> QED
  BY <1>3 DEF g

\* A page without updates to come is one whose rendering adds nothing.
LEMMA RenderedRun ==
    ASSUME NEW page \in BoundedPage, NEW n \in Nat, NEW m \in Nat,
           IsRun(page.history, n), IsRun(Rendered(page, m).history, m)
    PROVE  IsRun(page.history, m)
<1> DEFINE h == page.history
           g == Rendered(page, m).history
<1>1. \A i \in DOMAIN h : g[i].cycle = h[i].cycle
  BY RunIsNumbered, RenderedHistory
<1> QED
  BY <1>1, RenderedHistory DEF IsRun

LEMMA RenderAtOnceRuns ==
    ASSUME NEW page \in BoundedPage, draft \in BoundedPage, cycle \in Nat,
           page.history = draft.history,
           IsRun(Rendered(draft, cycle).history, cycle), RenderAtOnce(page)
    PROVE  /\ IsRun(shown'.history, cycle) /\ IsRun(draft'.history, cycle)
           /\ IsRun(Rendered(draft', cycle).history, cycle)
<1>1. Rendered(page, cycle).history = Rendered(draft, cycle).history
  BY DEF Rendered, BoundedPage, Page
<1>2. shown' = Rendered(page, cycle) /\ draft' = Rendered(page, cycle)
  BY DEF RenderAtOnce
<1>3. draft' \in BoundedPage
  BY <1>2, RenderedType
<1>4. IsRun(draft'.history, cycle)
  BY <1>1, <1>2
<1> QED
  BY <1>2, <1>3, <1>4, RunRendered

\* One operation more.
LEMMA AppendRun ==
    ASSUME NEW page \in BoundedPage, NEW v \in Vector, NEW d \in Nat, NEW n \in Nat,
           IsRun(page.history, n)
    PROVE  IsRun(Rendered(Succeeded(page, v, d), n + 1).history, n + 1)
<1> DEFINE h == page.history
           e == [vector |-> v, telemetry |-> d, cycle |-> Unnumbered]
           k == IF Len(h) < HistoryLimit THEN h ELSE SubSeq(h, Len(h) - HistoryLimit + 2, Len(h))
           a == HistoryAfter(h, e)
           g == Rendered(Succeeded(page, v, d), n + 1).history
<1>0. /\ HistoryLimit \in Nat \ {0}
      /\ h \in Seq(Entry) /\ Len(h) \in Nat /\ DOMAIN h = 1 .. Len(h)
      /\ Len(h) <= HistoryLimit
  BY HistoryProperties, StudioAssumption DEF BoundedPage
<1>e. e \in Entry /\ e.cycle = Unnumbered
  BY DEF Entry, Unnumbered
<1>1. Succeeded(page, v, d) \in BoundedPage /\ Succeeded(page, v, d).history = a
  BY SucceededType DEF Succeeded, BoundedPage, Page
<1>2. a = Append(k, e)
  BY DEF HistoryAfter
<1>3. CASE Len(h) < HistoryLimit
  <2>0. a = Append(h, e)
    BY <1>2, <1>3
  <2> HIDE DEF a, e, h, k, g
  <2>1. Len(a) = Len(h) + 1 /\ a[Len(h) + 1] = e /\ \A i \in 1 .. Len(h) : a[i] = h[i]
    BY <1>0, <1>e, <2>0, AppendProperties
  <2>2. Len(h) = n
    BY <1>0, <1>3 DEF IsRun, h
  <2>3. Len(g) = n + 1 /\ DOMAIN g = 1 .. (n + 1) /\ DOMAIN a = 1 .. (n + 1)
    BY <1>1, <2>1, <2>2, RenderedHistory, HistoryProperties DEF g
  <2>4. ASSUME NEW i \in 1 .. (n + 1)
        PROVE  g[i].cycle = i
    <3>1. g[i].cycle = IF a[i].cycle = Unnumbered THEN n + 1 ELSE a[i].cycle
      BY <1>1, <2>3, RenderedHistory DEF g
    <3>2. CASE i = n + 1
      BY <1>e, <2>1, <2>2, <3>1, <3>2
    <3>3. CASE i # n + 1
      <4>1. i \in 1 .. n /\ a[i] = h[i] /\ i \in DOMAIN h
        BY <1>0, <2>1, <2>2, <3>3
      <4>2. h[i].cycle = n - (n - i)
        BY <2>2, <4>1 DEF IsRun, h
      <4> QED
        BY <3>1, <4>1, <4>2 DEF Unnumbered
    <3> QED
      BY <3>2, <3>3
  <2> QED
    BY <1>0, <1>3, <2>2, <2>3, <2>4 DEF IsRun, g
<1>4. CASE ~ (Len(h) < HistoryLimit)
  <2> DEFINE L == HistoryLimit
  <2>1. Len(h) = L /\ k = SubSeq(h, 2, L)
    BY <1>0, <1>4
  <2>l. L \in Nat \ {0} /\ h \in Seq(Entry) /\ DOMAIN h = 1 .. L
    BY <1>0, <2>1
  <2> HIDE DEF a, e, h, k, g, L
  <2>2. k \in Seq(Entry) /\ Len(k) = L - 1 /\ \A i \in 1 .. (L - 1) : k[i] = h[i + 1]
    <3>1. /\ SubSeq(h, 2, L) \in Seq(Entry)
          /\ Len(SubSeq(h, 2, L)) = L - 1
          /\ \A i \in 1 .. (L - 1) : SubSeq(h, 2, L)[i] = h[2 + i - 1]
      BY <2>1, <2>l, SubSeqProperties
    <3> QED
      BY <2>1, <2>l, <3>1
  <2>3. Len(a) = L /\ a[L] = e /\ \A i \in 1 .. (L - 1) : a[i] = h[i + 1]
    BY <1>e, <1>2, <2>2, <2>l, AppendProperties
  <2>4. L <= n /\ \A i \in 1 .. L : h[i].cycle = n - (L - i)
    <3>1. L = IF n < L THEN n ELSE L
      BY <2>1 DEF IsRun, h, L
    <3>2. \A i \in DOMAIN h : h[i].cycle = n - (Len(h) - i)
      BY DEF IsRun, h
    <3>3. L <= n
      BY <2>l, <3>1
    <3>4. \A i \in 1 .. L : h[i].cycle = n - (L - i)
      BY <2>1, <2>l, <3>2
    <3> QED
      BY <3>3, <3>4
  <2>5. Len(g) = L /\ DOMAIN g = 1 .. L /\ DOMAIN a = 1 .. L
    BY <1>1, <2>3, RenderedHistory, HistoryProperties DEF g
  <2>6. ASSUME NEW i \in 1 .. L
        PROVE  g[i].cycle = n + 1 - (L - i)
    <3>1. g[i].cycle = IF a[i].cycle = Unnumbered THEN n + 1 ELSE a[i].cycle
      BY <1>1, <2>5, RenderedHistory DEF g
    <3>2. CASE i = L
      BY <1>0, <1>e, <2>3, <3>1, <3>2 DEF L
    <3>3. CASE i # L
      <4>1. i + 1 \in 1 .. L /\ a[i] = h[i + 1]
        BY <1>0, <2>3, <3>3 DEF L
      <4>2. a[i].cycle = n - (L - (i + 1)) /\ a[i].cycle # Unnumbered
        BY <1>0, <2>1, <2>4, <4>1, RunIsNumbered DEF h
      <4> QED
        BY <1>0, <3>1, <4>2 DEF L
    <3> QED
      BY <3>2, <3>3
  <2> QED
    BY <1>0, <2>4, <2>5, <2>6 DEF IsRun, L, g
<1> QED
  BY <1>3, <1>4

\* Whether the draft and the counter tell what is to be told now.
DraftIsRun == IsRun(Rendered(draft, cycle).history, cycle)

LEMMA SendRuns ==
    ASSUME StudioInv, WaveformsAreRuns, NEW c \in Call, NEW who, NEW q, Send(c, who, q), ~crossed'
    PROVE  /\ ~crossed /\ Waiting = {} /\ AtMostOneAwaited' /\ cycle' = cycle
           /\ DraftIsRun /\ \E n \in Nat : IsRun(shown.history, n)
<1>1. ~crossed /\ Waiting = {} /\ cycle' = cycle
  BY DEF Send
<1>2. \A d \in Call : awaited[d] = "free"
  BY <1>1 DEF Waiting
<1>3. awaited' = [awaited EXCEPT ![c] = who]
  BY DEF Send
<1>4. AtMostOneAwaited'
  BY <1>2, <1>3 DEF AtMostOneAwaited, StudioInv, StudioTypes, StudioTypeOK
<1> QED
  BY <1>1, <1>4 DEF WaveformsAreRuns, DraftIsRun

\* A click that sends a request renders what was to be rendered.
LEMMA ClickRuns ==
    ASSUME StudioInv, WaveformsAreRuns, NEW c \in Call, NEW who, NEW q, Send(c, who, q),
           NEW page \in BoundedPage, page.history = draft.history, RenderAtOnce(page)
    PROVE  WaveformsAreRuns'
<1> SUFFICES ASSUME ~crossed' PROVE WaveformsAreRuns'
  BY DEF WaveformsAreRuns
<1>1. draft \in BoundedPage /\ cycle \in Nat
  BY StudioTypesPages DEF StudioInv, StudioTypes, StudioTypeOK
<1>2. DraftIsRun /\ AtMostOneAwaited' /\ cycle' = cycle
  BY SendRuns
<1>3. /\ IsRun(shown'.history, cycle) /\ IsRun(draft'.history, cycle)
      /\ IsRun(Rendered(draft', cycle).history, cycle)
  BY <1>1, <1>2, RenderAtOnceRuns DEF DraftIsRun
<1> QED
  BY <1>1, <1>2, <1>3 DEF WaveformsAreRuns

LEMMA StudioNextRuns ==
    ASSUME StudioInv, StudioInv', WaveformsAreRuns, [StudioNext]_studioVars
    PROVE  WaveformsAreRuns'
<1> SUFFICES ASSUME ~crossed' PROVE WaveformsAreRuns'
  BY DEF WaveformsAreRuns
<1>p. /\ shown \in BoundedPage /\ draft \in BoundedPage /\ cycle \in Nat
      /\ shown' \in BoundedPage /\ draft' \in BoundedPage /\ DOMAIN awaited = Call
  BY StudioTypesPages DEF StudioInv, StudioTypes, StudioTypeOK, BoundedPage
<1>1. ASSUME NEW page \in BoundedPage, page.history = draft.history, RenderAtOnce(page),
             UNCHANGED <<cycle, awaited, crossed>>
      PROVE  WaveformsAreRuns'
  <2>1. AtMostOneAwaited /\ DraftIsRun
    BY <1>1 DEF WaveformsAreRuns, DraftIsRun
  <2>2. /\ IsRun(shown'.history, cycle) /\ IsRun(draft'.history, cycle)
        /\ IsRun(Rendered(draft', cycle).history, cycle)
    BY <1>p, <1>1, <2>1, RenderAtOnceRuns DEF DraftIsRun
  <2> QED
    BY <1>p, <1>1, <2>1, <2>2 DEF WaveformsAreRuns, AtMostOneAwaited
<1>2. CASE Render
  BY <1>p, <1>1, <1>2 DEF Render, ghosts
<1>3. ASSUME NEW v \in Vector, ChooseVector(v)
      PROVE  WaveformsAreRuns'
  <2> DEFINE page == [draft EXCEPT !.vector = v]
  <2>1. page \in BoundedPage /\ page.history = draft.history
    BY <1>p DEF BoundedPage, Page
  <2> QED
    BY <1>1, <1>3, <2>1 DEF ChooseVector, ghosts
<1>4. ASSUME NEW c \in Call, ExecuteCycle(c)
      PROVE  WaveformsAreRuns'
  <2>1. Begun(draft) \in BoundedPage /\ Begun(draft).history = draft.history
    BY <1>p, BegunType DEF Begun, BoundedPage, Page
  <2> QED
    BY <1>4, <2>1, ClickRuns DEF ExecuteCycle
<1>5. ASSUME NEW c \in Call, Reset(c)
      PROVE  WaveformsAreRuns'
  <2>1. Begun(draft) \in BoundedPage /\ Begun(draft).history = draft.history
    BY <1>p, BegunType DEF Begun, BoundedPage, Page
  <2> QED
    BY <1>5, <2>1, ClickRuns DEF Reset
<1>6. ASSUME NEW c \in Call, NEW l \in Loop, AutoRun(l, c)
      PROVE  WaveformsAreRuns'
  <2>1. 1 \in DOMAIN Presets
    BY StudioAssumption, LenProperties, EmptySeq
  <2>2. Turn(draft, 1) \in BoundedPage /\ Turn(draft, 1).history = draft.history
    BY <1>p, <2>1, TurnType DEF Turn, Begun, BoundedPage, Page
  <2> QED
    BY <1>6, <2>2, ClickRuns DEF AutoRun
<1>7. ASSUME UNCHANGED <<shown, draft, cycle, awaited, crossed>>
      PROVE  WaveformsAreRuns'
  BY <1>7 DEF WaveformsAreRuns, AtMostOneAwaited, Waiting
<1>8. CASE OpenLab
  BY <1>7, <1>8 DEF OpenLab, ghosts
<1>9. CASE Serve
  BY <1>7, <1>9 DEF Serve, pageVars, ghosts
<1>10. ASSUME NEW l \in Loop, EndSequence(l)
       PROVE  WaveformsAreRuns'
  BY <1>7, <1>10 DEF EndSequence, ghosts
<1>11. CASE UNCHANGED studioVars
  BY <1>7, <1>11 DEF studioVars, pageVars, ghosts
<1>12. CASE Reload
  <2>1. PICK v \in Vector : shown' = FreshPage(v)
    BY <1>12 DEF Reload
  <2>2. shown'.history = <<>> /\ draft'.history = <<>> /\ cycle' = 0
    BY <1>12, <2>1 DEF Reload, FreshPage
  <2>3. IsRun(<<>>, 0)
    BY StudioAssumption, EmptySeq DEF IsRun
  <2>4. IsRun(Rendered(draft', 0).history, 0)
    BY <1>p, <2>2, <2>3, RunRendered
  <2> QED
    BY <1>12, <2>2, <2>3, <2>4 DEF WaveformsAreRuns, AtMostOneAwaited, Reload
<1>13. ASSUME NEW l \in Loop, NEW c \in Call, NextPreset(l, c)
       PROVE  WaveformsAreRuns'
  <2>1. /\ AtMostOneAwaited' /\ cycle' = cycle /\ DraftIsRun
        /\ \E n \in Nat : IsRun(shown.history, n)
    BY <1>13, SendRuns DEF NextPreset
  <2>2. draft = shown /\ shown' = shown /\ draft'.history = draft.history
    BY <1>p, <1>13 DEF NextPreset, Asleep, RenderLater, Turn, Begun, BoundedPage, Page
  <2>3. IsRun(draft'.history, cycle)
    BY <1>p, <2>1, <2>2, RenderedRun DEF DraftIsRun
  <2>4. IsRun(Rendered(draft', cycle).history, cycle)
    BY <1>p, <2>3, RunRendered
  <2> QED
    BY <1>p, <2>1, <2>2, <2>3, <2>4 DEF WaveformsAreRuns
\* The call that ends was the only one.
<1>14. ASSUME NEW c \in Call, awaited[c] # "free", awaited' = [awaited EXCEPT ![c] = "free"],
              UNCHANGED <<shown, crossed>>
       PROVE  /\ Waiting # {} /\ Waiting' = {} /\ AtMostOneAwaited'
              /\ IsRun(draft.history, cycle) /\ \E n \in Nat : IsRun(shown'.history, n)
  <2>1. Waiting # {} /\ AtMostOneAwaited
    BY <1>14 DEF Waiting, WaveformsAreRuns
  <2>2. \A d \in Call : awaited'[d] = "free"
    BY <1>p, <1>14, <2>1 DEF AtMostOneAwaited
  <2> QED
    BY <1>14, <2>1, <2>2 DEF AtMostOneAwaited, Waiting, WaveformsAreRuns
<1>15. ASSUME NEW c \in Call, awaited[c] # "free", awaited' = [awaited EXCEPT ![c] = "free"],
              RenderLater(Failed(draft)), UNCHANGED <<cycle, crossed>>
       PROVE  WaveformsAreRuns'
  <2>1. draft'.history = draft.history
    BY <1>p, <1>15 DEF RenderLater, Failed, BoundedPage, Page
  <2>2. /\ Waiting' = {} /\ AtMostOneAwaited'
        /\ IsRun(draft'.history, cycle) /\ \E n \in Nat : IsRun(shown'.history, n)
    BY <1>14, <1>15, <2>1 DEF RenderLater
  <2>3. IsRun(Rendered(draft', cycle).history, cycle)
    BY <1>p, <2>2, RunRendered
  <2> QED
    BY <1>15, <2>2, <2>3 DEF WaveformsAreRuns
<1>16. ASSUME NEW c \in Call, Lose(c)
       PROVE  WaveformsAreRuns'
  BY <1>15, <1>16 DEF Lose
<1>17. ASSUME NEW c \in Call, Receive(c)
       PROVE  WaveformsAreRuns'
  <2>1. CASE reply[c] = Failure
    BY <1>15, <1>17, <2>1 DEF Receive
  <2>2. CASE reply[c] # Failure
    <3>1. /\ Waiting' = {} /\ AtMostOneAwaited' /\ cycle' = CycleAfter(request[c])
          /\ IsRun(draft.history, cycle) /\ \E n \in Nat : IsRun(shown'.history, n)
      BY <1>14, <1>17, <2>2 DEF Receive, RenderLater
    <3>2. reply[c] \in Success /\ request[c] \in StudioRequest
      BY <1>17, <2>2 DEF Receive, StudioInv, StudioTypes, StudioTypeOK, RepliesOK
    <3>3. CASE request[c].command = "reset"
      <4>1. draft'.history = <<>> /\ cycle' = 0
        BY <1>p, <1>17, <2>2, <3>1, <3>3
           DEF Receive, RenderLater, Cleared, CycleAfter, BoundedPage, Page
      <4>2. IsRun(<<>>, 0)
        BY StudioAssumption, EmptySeq DEF IsRun
      <4>3. IsRun(Rendered(draft', 0).history, 0)
        BY <1>p, <4>1, <4>2, RunRendered
      <4> QED
        BY <3>1, <4>1, <4>3 DEF WaveformsAreRuns
    <3>4. CASE request[c].command # "reset"
      <4>1. reply[c].telemetry \in Nat /\ request[c].vector \in Vector
        BY <3>2, <3>4, RequestKinds DEF Success
      <4>2. /\ draft' = Succeeded(draft, request[c].vector, reply[c].telemetry)
            /\ cycle' = cycle + 1
        BY <1>17, <2>2, <3>1, <3>4 DEF Receive, RenderLater, CycleAfter
      <4>3. IsRun(Rendered(draft', cycle + 1).history, cycle + 1)
        BY <1>p, <3>1, <4>1, <4>2, AppendRun
      <4> QED
        BY <3>1, <4>2, <4>3 DEF WaveformsAreRuns
    <3> QED
      BY <3>3, <3>4
  <2> QED
    BY <2>1, <2>2
<1> QED
  BY <1>2, <1>3, <1>4, <1>5, <1>6, <1>8, <1>9, <1>10, <1>11, <1>12, <1>13, <1>16, <1>17
     DEF StudioNext, User, Wake

-----------------------------------------------------------------------------
(* The response on display and the last entry of the waveform.             *)

ResponseIsLast(page) ==
    LET h == page.history
    IN  IF h = <<>> THEN page.response = initialResponse
        ELSE /\ h[Len(h)].vector = page.response.vector
             /\ h[Len(h)].telemetry = page.response.telemetry

ResponsesAreLast == ResponseIsLast(shown) /\ ResponseIsLast(draft)

LEMMA RenderedResponse ==
    ASSUME NEW page \in BoundedPage, NEW n \in Nat, ResponseIsLast(page)
    PROVE  /\ ResponseIsLast(Rendered(page, n))
           /\ Rendered(page, n).response = page.response
<1> DEFINE h == page.history
           g == Rendered(page, n).history
<1>1. /\ Rendered(page, n).response = page.response
      /\ Rendered(page, n) \in BoundedPage
  BY RenderedType DEF Rendered, BoundedPage, Page
<1>2. Len(g) = Len(h) /\ g \in Seq(Entry) /\ h \in Seq(Entry)
  BY <1>1, RenderedHistory, HistoryProperties
<1>3. CASE h = <<>>
  <2>1. g = <<>>
    BY <1>2, <1>3, EmptySeq
  <2> QED
    BY <1>1, <1>3, <2>1 DEF ResponseIsLast
<1>4. CASE h # <<>>
  <2>1. Len(h) \in DOMAIN h
    BY <1>2, <1>4, EmptySeq, HistoryProperties
  <2>2. g # <<>>
    BY <1>2, <1>4, EmptySeq
  <2>3. g[Len(g)].vector = h[Len(h)].vector /\ g[Len(g)].telemetry = h[Len(h)].telemetry
    BY <1>2, <2>1, RenderedHistory
  <2> QED
    BY <1>1, <1>4, <2>2, <2>3 DEF ResponseIsLast
<1> QED
  BY <1>1, <1>3, <1>4

LEMMA SucceededResponse ==
    ASSUME NEW page \in BoundedPage, NEW v \in Vector, NEW d \in Nat
    PROVE  ResponseIsLast(Succeeded(page, v, d)) /\ Succeeded(page, v, d).response.telemetry = d
<1> DEFINE h == page.history
           e == [vector |-> v, telemetry |-> d, cycle |-> Unnumbered]
           k == IF Len(h) < HistoryLimit THEN h ELSE SubSeq(h, Len(h) - HistoryLimit + 2, Len(h))
           a == HistoryAfter(h, e)
<1>1. /\ HistoryLimit \in Nat \ {0}
      /\ h \in Seq(Entry) /\ Len(h) \in Nat /\ DOMAIN h = 1 .. Len(h)
      /\ Len(h) <= HistoryLimit
  BY HistoryProperties, StudioAssumption DEF BoundedPage
<1>2. k \in Seq(Entry)
  <2>1. \A i \in Len(h) - HistoryLimit + 2 .. Len(h) :
           ~ (Len(h) < HistoryLimit) => h[i] \in Entry
    BY <1>1, HistoryProperties
  <2> QED
    BY <1>1, <2>1, SubSeqProperties
<1>3. a = Append(k, e) /\ e \in Entry
  BY DEF HistoryAfter, Entry, Unnumbered
<1>4. a # <<>> /\ a[Len(a)] = e
  <2> HIDE DEF a, k, e
  <2>1. a # <<>> /\ Len(a) = Len(k) + 1 /\ a[Len(k) + 1] = e
    BY <1>2, <1>3, AppendProperties
  <2> QED
    BY <2>1
<1>5. /\ Succeeded(page, v, d).history = a
      /\ Succeeded(page, v, d).response = [vector |-> v, telemetry |-> d]
  BY DEF Succeeded, BoundedPage, Page
<1> QED
  BY <1>4, <1>5 DEF ResponseIsLast

LEMMA ClearedResponse ==
    ASSUME NEW page \in BoundedPage
    PROVE  ResponseIsLast(Cleared(page)) /\ Cleared(page).response = initialResponse
  BY DEF Cleared, ResponseIsLast, BoundedPage, Page

LEMMA SameResponse ==
    ASSUME NEW page \in BoundedPage, NEW v \in Vector, NEW n \in DOMAIN Presets
    PROVE  \A other \in {Begun(page), Failed(page), Turn(page, n), [page EXCEPT !.vector = v]} :
              /\ other \in BoundedPage
              /\ other.history = page.history /\ other.response = page.response
<1>1. LET other == [page EXCEPT !.vector = v]
      IN  /\ other \in BoundedPage
          /\ other.history = page.history /\ other.response = page.response
  BY DEF BoundedPage, Page
<1>2. Begun(page).history = page.history /\ Begun(page).response = page.response
  BY DEF Begun, BoundedPage, Page
<1>3. Failed(page).history = page.history /\ Failed(page).response = page.response
  BY DEF Failed, BoundedPage, Page
<1>4. Turn(page, n).history = page.history /\ Turn(page, n).response = page.response
  BY DEF Turn, Begun, BoundedPage, Page
<1> QED
  BY <1>1, <1>2, <1>3, <1>4, BegunType, FailedType, TurnType

\* The three ways in which a step changes the pages: it renders or records an update that is
\* not about answers; it ends a call with an answer; it loads the page anew.
LEMMA PageSteps ==
    ASSUME StudioInv, StudioInv', [StudioNext]_studioVars
    PROVE  \/ /\ \/ \E page \in BoundedPage :
                       /\ page.history = draft.history /\ page.response = draft.response
                       /\ RenderAtOnce(page)
                 \/ shown' = shown /\ draft'.history = draft.history
                    /\ draft'.response = draft.response
           \/ \E c \in Call : Receive(c) /\ reply[c] # Failure
           \/ Reload
<1> DEFINE Rendering == \E page \in BoundedPage :
                           /\ page.history = draft.history /\ page.response = draft.response
                           /\ RenderAtOnce(page)
           Recording == shown' = shown /\ draft'.history = draft.history
                        /\ draft'.response = draft.response
<1>p. draft \in BoundedPage /\ shown.vector \in Vector
  BY StudioTypesPages DEF StudioInv, BoundedPage, Page
<1>1. 1 \in DOMAIN Presets
  BY StudioAssumption, LenProperties, EmptySeq
<1>2. ASSUME Render PROVE Rendering
  BY <1>p, <1>2 DEF Render
<1>3. ASSUME NEW v \in Vector, ChooseVector(v) PROVE Rendering
  <2>1. RenderAtOnce([draft EXCEPT !.vector = v])
    BY <1>3 DEF ChooseVector
  <2> QED
    BY <1>p, <1>1, <2>1, SameResponse
<1>4. ASSUME NEW c \in Call, ExecuteCycle(c) \/ Reset(c) PROVE Rendering
  <2>1. RenderAtOnce(Begun(draft))
    BY <1>4 DEF ExecuteCycle, Reset
  <2> QED
    BY <1>p, <1>1, <2>1, SameResponse
<1>5. ASSUME NEW c \in Call, NEW l \in Loop, AutoRun(l, c) PROVE Rendering
  <2>1. RenderAtOnce(Turn(draft, 1))
    BY <1>5 DEF AutoRun
  <2> QED
    BY <1>p, <1>1, <2>1, SameResponse
<1>6. ASSUME NEW l \in Loop, NEW c \in Call, NextPreset(l, c) PROVE Recording
  <2>1. position[l] + 1 \in DOMAIN Presets
    BY <1>6, StudioAssumption, LenProperties
       DEF NextPreset, Asleep, StudioInv, StudioTypes, StudioTypeOK
  <2> QED
    BY <1>p, <1>6, <2>1, SameResponse DEF NextPreset, RenderLater
<1>7. ASSUME NEW c \in Call, Lose(c) \/ (Receive(c) /\ reply[c] = Failure) PROVE Recording
  <2>1. RenderLater(Failed(draft))
    BY <1>7 DEF Lose, Receive
  <2> QED
    BY <1>p, <1>1, <2>1, SameResponse DEF RenderLater
<1>8. CASE OpenLab \/ Serve \/ (\E l \in Loop : EndSequence(l)) \/ UNCHANGED studioVars
  BY <1>8 DEF OpenLab, Serve, EndSequence, studioVars, pageVars
<1> QED
  BY <1>2, <1>3, <1>4, <1>5, <1>6, <1>7, <1>8 DEF StudioNext, User, Wake

LEMMA StudioNextResponses ==
    ASSUME StudioInv, StudioInv', ResponsesAreLast, [StudioNext]_studioVars
    PROVE  ResponsesAreLast'
<1>p. draft \in BoundedPage /\ cycle \in Nat
  BY StudioTypesPages DEF StudioInv, StudioTypes, StudioTypeOK
<1>1. ASSUME NEW page \in BoundedPage, RenderAtOnce(page),
             page.history = draft.history, page.response = draft.response
      PROVE  ResponsesAreLast'
  BY <1>p, <1>1, RenderedResponse DEF RenderAtOnce, ResponsesAreLast, ResponseIsLast
<1>2. CASE shown' = shown /\ draft'.history = draft.history /\ draft'.response = draft.response
  BY <1>2 DEF ResponsesAreLast, ResponseIsLast
<1>3. ASSUME NEW c \in Call, Receive(c), reply[c] # Failure
      PROVE  ResponsesAreLast'
  <2>1. reply[c] \in Success /\ request[c] \in StudioRequest
    BY <1>3 DEF Receive, StudioInv, StudioTypes, StudioTypeOK, RepliesOK
  <2>2. shown' = shown
        /\ draft' = IF request[c].command = "reset" THEN Cleared(draft)
                    ELSE Succeeded(draft, request[c].vector, reply[c].telemetry)
    BY <1>3 DEF Receive, RenderLater
  <2>3. CASE request[c].command = "reset"
    BY <1>p, <2>2, <2>3, ClearedResponse DEF ResponsesAreLast
  <2>4. CASE request[c].command # "reset"
    BY <1>p, <2>1, <2>2, <2>4, RequestKinds, SucceededResponse DEF ResponsesAreLast, Success
  <2> QED
    BY <2>3, <2>4
<1>4. CASE Reload
  BY <1>4 DEF Reload, FreshPage, ResponsesAreLast, ResponseIsLast
<1> QED
  BY <1>1, <1>2, <1>3, <1>4, PageSteps

-----------------------------------------------------------------------------
(* The display and the device.                                             *)

\* Call c has changed the device, or may have, and the page has not seen its answer.
Effective(c) ==
    \/ phase[c] = "served"
    \/ awaited[c] # "free" /\ phase[c] = "idle" /\ reply[c] # Failure

\* What a call brings that nothing overlapped is the device as it is.
LoneCallsAreLatest ==
    \A c \in Call : alone[c] =>
        /\ \A d \in Call \ {c} : phase[d] = "idle" /\ awaited[d] = "free"
        /\ Effective(c) => /\ reply[c].telemetry = device
                           /\ request[c].command = "reset" => device = 0

\* After such an answer the server works for nobody but this page, and until it has changed
\* the device again the response is the device's.
ResponseInSync ==
    synced =>
        /\ \A c \in Call : awaited[c] = "free" => phase[c] = "idle"
        /\ (\A c \in Call : ~Effective(c)) => draft.response.telemetry = device

LiveInv == LoneCallsAreLatest /\ ResponseInSync

LEMMA ResponseKept ==
    ASSUME StudioInv, StudioInv', [StudioNext]_studioVars,
           ~Reload, \A c \in Call : ~ (Receive(c) /\ reply[c] # Failure)
    PROVE  draft'.response = draft.response
<1>1. cycle \in Nat
  BY DEF StudioInv, StudioTypes, StudioTypeOK
<1>2. ASSUME NEW page \in BoundedPage, page.response = draft.response, RenderAtOnce(page)
      PROVE  draft'.response = draft.response
  BY <1>1, <1>2 DEF RenderAtOnce, Rendered, BoundedPage, Page
<1> QED
  BY <1>2, PageSteps

LEMMA SendLive ==
    ASSUME StudioInv, LiveInv, NEW c \in Call, NEW who \in {"button"} \union Loop, NEW q,
           Send(c, who, q), draft'.response = draft.response
    PROVE  LiveInv'
<1>1. /\ DOMAIN awaited = Call /\ DOMAIN phase = Call /\ DOMAIN request = Call
      /\ DOMAIN reply = Call
  BY DEF StudioInv, StudioTypes, StudioTypeOK
<1>2. /\ awaited[c] = "free" /\ phase[c] = "idle"
      /\ awaited' = [awaited EXCEPT ![c] = who] /\ phase' = [phase EXCEPT ![c] = "asked"]
      /\ request' = [request EXCEPT ![c] = q] /\ reply' = [reply EXCEPT ![c] = NoAnswer]
      /\ alone' = [d \in Call |-> Alone /\ d = c]
      /\ device' = device /\ synced' = synced
  BY DEF Send, Backend!Ask
<1>3. who # "free"
  BY StudioAssumption
<1>4. \A d \in Call : Effective(d)' <=> Effective(d)
  BY <1>1, <1>2 DEF Effective
<1>5. LoneCallsAreLatest'
  <2> SUFFICES ASSUME NEW d \in Call, alone'[d]
               PROVE  /\ \A e \in Call \ {d} : phase'[e] = "idle" /\ awaited'[e] = "free"
                      /\ ~Effective(d)'
    BY DEF LoneCallsAreLatest
  <2>1. d = c /\ Alone
    BY <1>2
  <2>2. \A e \in Call : phase[e] = "idle" /\ awaited[e] = "free"
    BY <2>1 DEF Alone, Waiting
  <2> QED
    BY <1>1, <1>2, <2>1, <2>2 DEF Effective
<1>6. ResponseInSync'
  <2> SUFFICES ASSUME synced
               PROVE  /\ \A d \in Call : awaited'[d] = "free" => phase'[d] = "idle"
                      /\ (\A d \in Call : ~Effective(d)') => draft'.response.telemetry = device'
    BY <1>2 DEF ResponseInSync
  <2>1. \A d \in Call : awaited'[d] = "free" => phase'[d] = "idle"
    BY <1>1, <1>2, <1>3 DEF LiveInv, ResponseInSync
  <2>2. ASSUME \A d \in Call : ~Effective(d)'
        PROVE  draft'.response.telemetry = device'
    <3>1. \A d \in Call : ~Effective(d)
      BY <1>4, <2>2
    <3> QED
      BY <1>2, <3>1 DEF LiveInv, ResponseInSync
  <2> QED
    BY <2>1, <2>2
<1> QED
  BY <1>5, <1>6 DEF LiveInv

LEMMA ServeLive ==
    ASSUME StudioInv, LiveInv, Serve, draft'.response = draft.response
    PROVE  LiveInv'
<1>1. /\ DOMAIN awaited = Call /\ DOMAIN phase = Call /\ DOMAIN reply = Call
      /\ awaited' = awaited
  BY DEF StudioInv, StudioTypes, StudioTypeOK, Serve, pageVars
<1>2. ASSUME NEW c \in Call, Backend!Serve(c), UNCHANGED <<pageVars, clicks, ghosts>>
      PROVE  LiveInv'
  <2>1. /\ phase[c] = "asked" /\ phase' = [phase EXCEPT ![c] = "served"]
        /\ device' = Executed(device, request[c]) /\ request' = request
        /\ reply' = [reply EXCEPT ![c] = Answered(device', request[c])]
        /\ alone' = alone /\ synced' = synced
    BY <1>2 DEF Backend!Serve, ghosts
  <2>2. LoneCallsAreLatest'
    <3> SUFFICES ASSUME NEW d \in Call, alone[d]
                 PROVE  /\ \A e \in Call \ {d} : phase'[e] = "idle" /\ awaited'[e] = "free"
                        /\ /\ reply'[d].telemetry = device'
                           /\ request'[d].command = "reset" => device' = 0
      BY <2>1 DEF LoneCallsAreLatest
    <3>1. \A e \in Call \ {d} : phase[e] = "idle" /\ awaited[e] = "free"
      BY DEF LiveInv, LoneCallsAreLatest
    <3>2. d = c
      BY <2>1, <3>1
    <3>3. reply'[d].telemetry = device' /\ (request'[d].command = "reset" => device' = 0)
      BY <1>1, <2>1, <3>2 DEF Answered, Executed
    <3> QED
      BY <1>1, <2>1, <3>1, <3>2, <3>3
  <2>3. Effective(c)'
    BY <1>1, <2>1 DEF Effective
  <2>4. ResponseInSync'
    BY <1>1, <2>1, <2>3 DEF LiveInv, ResponseInSync
  <2> QED
    BY <2>2, <2>4 DEF LiveInv
\* Refused and concluded calls leave the device as it is.
<1>3. ASSUME NEW c \in Call, Backend!Refuse(c) \/ Backend!Conclude(c),
             UNCHANGED <<pageVars, clicks, ghosts>>
      PROVE  LiveInv'
  <2>1. /\ device' = device /\ request' = request /\ alone' = alone /\ synced' = synced
        /\ phase' = [phase EXCEPT ![c] = "idle"]
        /\ phase[c] # "idle"
        /\ \A d \in Call : reply'[d] # reply[d] => d = c /\ reply'[c] = Failure
    BY <1>1, <1>3 DEF Backend!Refuse, Backend!Conclude, ghosts
  <2>2. ASSUME NEW d \in Call
        PROVE  Effective(d)' => Effective(d) /\ reply'[d] = reply[d]
    <3>1. CASE Backend!Refuse(c)
      BY <1>1, <3>1 DEF Effective, Backend!Refuse
    <3>2. CASE Backend!Conclude(c)
      BY <1>1, <3>2 DEF Effective, Backend!Conclude
    <3> QED
      BY <1>3, <3>1, <3>2
  <2>3. LoneCallsAreLatest'
    <3> SUFFICES ASSUME NEW d \in Call, alone[d]
                 PROVE  /\ \A e \in Call \ {d} : phase'[e] = "idle" /\ awaited'[e] = "free"
                        /\ Effective(d)' => /\ reply'[d].telemetry = device'
                                            /\ request'[d].command = "reset" => device' = 0
      BY <2>1 DEF LoneCallsAreLatest
    <3>1. /\ \A e \in Call \ {d} : phase[e] = "idle" /\ awaited[e] = "free"
          /\ Effective(d) => /\ reply[d].telemetry = device
                             /\ request[d].command = "reset" => device = 0
      BY DEF LiveInv, LoneCallsAreLatest
    <3> QED
      BY <1>1, <2>1, <2>2, <3>1
  <2>4. ResponseInSync'
    <3> SUFFICES ASSUME synced
                 PROVE  /\ \A d \in Call : awaited'[d] = "free" => phase'[d] = "idle"
                        /\ (\A d \in Call : ~Effective(d)') => draft'.response.telemetry = device'
      BY <2>1 DEF ResponseInSync
    <3>1. \A d \in Call : awaited'[d] = "free" => phase'[d] = "idle"
      BY <1>1, <2>1 DEF LiveInv, ResponseInSync
    <3>2. awaited[c] # "free"
      BY <2>1 DEF LiveInv, ResponseInSync
    <3>3. ASSUME \A d \in Call : ~Effective(d)'
          PROVE  \A d \in Call : ~Effective(d)
      <4>1. CASE Backend!Refuse(c)
        BY <1>1, <3>2, <3>3, <4>1 DEF Effective, Backend!Refuse
      <4>2. CASE Backend!Conclude(c)
        <5>1. reply[c] # Failure
          BY <4>2 DEF Backend!Conclude, StudioInv, StudioTypes, RepliesOK, Success, Failure
        <5> QED
          BY <1>1, <3>2, <3>3, <4>2, <5>1 DEF Effective, Backend!Conclude
      <4> QED
        BY <1>3, <4>1, <4>2
    <3> QED
      BY <2>1, <3>1, <3>3 DEF LiveInv, ResponseInSync
  <2> QED
    BY <2>3, <2>4 DEF LiveInv
<1>4. CASE alone' = [c \in Call |-> FALSE] /\ synced' = FALSE
  BY <1>4 DEF LiveInv, LoneCallsAreLatest, ResponseInSync
<1> QED
  BY <1>2, <1>3, <1>4 DEF Serve, Backend!Attend

LEMMA ReceiveLive ==
    ASSUME StudioInv, LiveInv, NEW c \in Call, Receive(c),
           reply[c] = Failure => draft'.response = draft.response
    PROVE  LiveInv'
<1>1. /\ awaited[c] # "free" /\ phase[c] = "idle" /\ DOMAIN awaited = Call
      /\ awaited' = [awaited EXCEPT ![c] = "free"]
      /\ device' = device /\ phase' = phase /\ request' = request /\ reply' = reply
      /\ alone' = alone
  BY DEF Receive, backendVars, StudioInv, StudioTypes, StudioTypeOK
<1>2. \A d \in Call : Effective(d)' => Effective(d) /\ d # c
  BY <1>1 DEF Effective
<1>3. \A d \in Call : Effective(d) => Effective(d)' \/ (d = c /\ reply[c] # Failure)
  BY <1>1 DEF Effective
<1>4. LoneCallsAreLatest'
  <2> SUFFICES ASSUME NEW d \in Call, alone[d]
               PROVE  /\ \A e \in Call \ {d} : phase'[e] = "idle" /\ awaited'[e] = "free"
                      /\ Effective(d)' => /\ reply'[d].telemetry = device'
                                          /\ request'[d].command = "reset" => device' = 0
    BY <1>1 DEF LoneCallsAreLatest
  <2> QED
    BY <1>1, <1>2 DEF LiveInv, LoneCallsAreLatest
<1>5. CASE reply[c] = Failure
  <2>1. synced' = synced
    BY <1>5 DEF Receive
  <2> QED
    BY <1>1, <1>3, <1>4, <1>5, <2>1 DEF LiveInv, ResponseInSync
<1>6. CASE reply[c] # Failure
  <2>0. synced' = alone[c]
    BY <1>6 DEF Receive
  <2> SUFFICES ASSUME alone[c]
               PROVE  /\ \A d \in Call : awaited'[d] = "free" => phase'[d] = "idle"
                      /\ draft'.response.telemetry = device'
    BY <1>4, <2>0 DEF LiveInv, ResponseInSync
  <2>1. /\ \A d \in Call \ {c} : phase[d] = "idle"
        /\ reply[c].telemetry = device /\ (request[c].command = "reset" => device = 0)
    BY <1>1, <1>6 DEF LiveInv, LoneCallsAreLatest, Effective
  <2>2. /\ reply[c] \in Success /\ request[c] \in StudioRequest /\ draft \in BoundedPage
    BY <1>1, <1>6, StudioTypesPages
       DEF StudioInv, StudioTypes, StudioTypeOK, RepliesOK
  <2>3. draft' = IF request[c].command = "reset" THEN Cleared(draft)
                 ELSE Succeeded(draft, request[c].vector, reply[c].telemetry)
    BY <1>6 DEF Receive, RenderLater
  <2>4. draft'.response.telemetry = device
    <3>1. CASE request[c].command = "reset"
      BY <2>1, <2>2, <2>3, <3>1, ClearedResponse DEF initialResponse
    <3>2. CASE request[c].command # "reset"
      BY <2>1, <2>2, <2>3, <3>2, RequestKinds, SucceededResponse DEF Success
    <3> QED
      BY <3>1, <3>2
  <2> QED
    BY <1>1, <2>1, <2>4
<1> QED
  BY <1>5, <1>6

LEMMA StudioNextLive ==
    ASSUME StudioInv, StudioInv', LiveInv, [StudioNext]_studioVars
    PROVE  LiveInv'
<1>1. CASE Reload
  BY <1>1 DEF Reload, LiveInv, LoneCallsAreLatest, ResponseInSync
<1>2. ASSUME NEW c \in Call, Receive(c), reply[c] # Failure
      PROVE  LiveInv'
  BY <1>2, ReceiveLive
<1>3. CASE ~Reload /\ \A c \in Call : ~ (Receive(c) /\ reply[c] # Failure)
  <2>1. draft'.response = draft.response
    BY <1>3, ResponseKept
  <2>2. ASSUME UNCHANGED <<backendVars, awaited, alone, synced>>
        PROVE  LiveInv'
    BY <2>1, <2>2 DEF backendVars, LiveInv, LoneCallsAreLatest, ResponseInSync, Effective
  <2>3. ASSUME NEW c \in Call, NEW who \in {"button"} \union Loop, NEW q, Send(c, who, q)
        PROVE  LiveInv'
    BY <2>1, <2>3, SendLive
  <2>4. CASE Render \/ OpenLab \/ UNCHANGED studioVars
             \/ (\E v \in Vector : ChooseVector(v)) \/ (\E l \in Loop : EndSequence(l))
    BY <2>2, <2>4 DEF Render, OpenLab, ChooseVector, EndSequence, studioVars, pageVars, ghosts
  <2>5. ASSUME NEW c \in Call,
               ExecuteCycle(c) \/ Reset(c) \/ \E l \in Loop : AutoRun(l, c) \/ NextPreset(l, c)
        PROVE  LiveInv'
    BY <2>3, <2>5 DEF ExecuteCycle, Reset, AutoRun, NextPreset
  <2>6. CASE Serve
    BY <2>1, <2>6, ServeLive
  <2>7. ASSUME NEW c \in Call, Receive(c)
        PROVE  LiveInv'
    BY <2>1, <2>7, ReceiveLive
  <2>8. ASSUME NEW c \in Call, Lose(c)
        PROVE  LiveInv'
    <3>1. /\ awaited[c] # "free" /\ awaited' = [awaited EXCEPT ![c] = "free"]
          /\ UNCHANGED <<backendVars, alone>> /\ synced' = FALSE
      BY <2>8 DEF Lose
    <3>2. DOMAIN awaited = Call
      BY DEF StudioInv, StudioTypes, StudioTypeOK
    <3> QED
      BY <3>1, <3>2 DEF backendVars, LiveInv, LoneCallsAreLatest, ResponseInSync, Effective
  <2> QED
    BY <1>3, <2>4, <2>5, <2>6, <2>7, <2>8 DEF StudioNext, User, Wake
<1> QED
  BY <1>1, <1>2, <1>3

-----------------------------------------------------------------------------
(* The theorems.                                                           *)

LEMMA StudioInvariant == StudioSpec => []StudioInv
<1>1. StudioInit => StudioInv
  BY StudioInitInv
<1>2. StudioInv /\ [StudioNext]_studioVars => StudioInv'
  BY StudioNextTypes, StudioNextTurns DEF StudioInv
<1> QED
  BY <1>1, <1>2, PTL DEF StudioSpec

\* The page's state keeps its shape, and the waveform its limit, for any number of calls,
\* sequences and presets.
THEOREM StudioTypeCorrect == StudioSpec => []StudioTypeOK
<1>1. StudioInv => StudioTypeOK
  BY DEF StudioInv, StudioTypes
<1> QED
  BY <1>1, StudioInvariant, PTL

\* Two calls of the page are under way at once only if a benchmark sequence was started: the
\* busy flag of the buttons is enough without it.
THEOREM OnlySequencesCross == StudioSpec => []OnlyAutoRunCrosses
<1>1. StudioInv => OnlyAutoRunCrosses
  BY DEF StudioInv, ButtonsTakeTurns, OnlyAutoRunCrosses
<1> QED
  BY <1>1, StudioInvariant, PTL

\* What the page shows, as an inductive invariant.
PageInv == StudioInv /\ WaveformsAreRuns /\ ResponsesAreLast /\ LiveInv

LEMMA PageInitInv == StudioInit => PageInv
<1> SUFFICES ASSUME StudioInit PROVE PageInv
  OBVIOUS
<1>1. StudioInv
  BY StudioInitInv
<1>2. PICK v \in Vector : shown = FreshPage(v)
  BY DEF StudioInit
<1>3. /\ shown.history = <<>> /\ draft.history = <<>> /\ cycle = 0
      /\ draft.response = initialResponse /\ shown.response = initialResponse
      /\ shown \in BoundedPage /\ draft \in BoundedPage
  BY <1>2, FreshPageType DEF StudioInit, FreshPage
<1>4. IsRun(<<>>, 0)
  BY StudioAssumption, EmptySeq DEF IsRun
<1>5. WaveformsAreRuns
  <2>1. IsRun(Rendered(draft, 0).history, 0)
    BY <1>3, <1>4, RunRendered
  <2>2. AtMostOneAwaited /\ Waiting = {}
    BY DEF AtMostOneAwaited, StudioInit, Waiting
  <2> QED
    BY <1>3, <1>4, <2>1, <2>2 DEF WaveformsAreRuns
<1>6. ResponsesAreLast
  BY <1>3 DEF ResponsesAreLast, ResponseIsLast
<1>7. LiveInv
  BY DEF LiveInv, LoneCallsAreLatest, ResponseInSync, StudioInit
<1> QED
  BY <1>1, <1>5, <1>6, <1>7 DEF PageInv

LEMMA PageInvariant == StudioSpec => []PageInv
<1>1. StudioInit => PageInv
  BY PageInitInv
<1>2. PageInv /\ [StudioNext]_studioVars => PageInv'
  <2> SUFFICES ASSUME PageInv, [StudioNext]_studioVars PROVE PageInv'
    OBVIOUS
  <2>1. StudioInv'
    BY StudioNextTypes, StudioNextTurns DEF PageInv, StudioInv
  <2> QED
    BY <2>1, StudioNextRuns, StudioNextResponses, StudioNextLive DEF PageInv
<1> QED
  BY <1>1, <1>2, PTL DEF StudioSpec

\* A quiet page whose last answer came to a call that nothing overlapped shows the device as
\* it is, in the response and at the end of the waveform.
THEOREM DisplayLive == StudioSpec => []DisplayIsLive
<1>1. PageInv => DisplayIsLive
  <2> SUFFICES ASSUME PageInv, synced, Settled, \A c \in Call : phase[c] = "idle"
               PROVE  /\ shown.response.telemetry = device
                      /\ ResponseIsLast(shown)
    BY DEF DisplayIsLive, ResponseIsLast
  <2>1. \A c \in Call : ~Effective(c)
    BY DEF Settled, Waiting, Effective
  <2> QED
    BY <2>1 DEF PageInv, LiveInv, ResponseInSync, ResponsesAreLast, Settled
<1> QED
  BY <1>1, PageInvariant, PTL

\* A quiet page on which no two calls crossed shows the waveform of now.
LEMMA SettledRun ==
    ASSUME PageInv, ~crossed, Settled
    PROVE  IsRun(shown.history, cycle)
<1>1. shown \in BoundedPage /\ cycle \in Nat
  BY StudioTypesPages DEF PageInv, StudioInv, StudioTypes, StudioTypeOK
<1>2. IsRun(Rendered(shown, cycle).history, cycle) /\ \E n \in Nat : IsRun(shown.history, n)
  BY DEF PageInv, WaveformsAreRuns, Settled
<1> QED
  BY <1>1, <1>2, RenderedRun

\* The numbers on the waveform are those of the last operations, without a gap.
THEOREM CyclesConsecutive == StudioSpec => []CyclesAreConsecutive
<1>1. PageInv => CyclesAreConsecutive
  <2> SUFFICES ASSUME PageInv, ~crossed
               PROVE  LET h == shown.history
                      IN  /\ \A i \in DOMAIN h : h[i].cycle = h[Len(h)].cycle - (Len(h) - i)
                          /\ Settled => \/ h = <<>> /\ cycle = 0
                                        \/ /\ h # <<>> /\ h[Len(h)].cycle = cycle
                                           /\ Len(h) = IF cycle < HistoryLimit THEN cycle
                                                       ELSE HistoryLimit
    BY DEF CyclesAreConsecutive
  <2> DEFINE h == shown.history
  <2>1. /\ h \in Seq(Entry) /\ Len(h) \in Nat /\ DOMAIN h = 1 .. Len(h)
        /\ cycle \in Nat /\ HistoryLimit \in Nat \ {0}
        /\ \A i \in DOMAIN h : h[i].cycle \in Nat
    BY StudioTypesPages, HistoryProperties, StudioAssumption
       DEF PageInv, StudioInv, StudioTypes, StudioTypeOK, Entry
  <2>2. PICK n \in Nat : IsRun(h, n)
    BY DEF PageInv, WaveformsAreRuns
  <2>3. ASSUME NEW i \in DOMAIN h
        PROVE  h[i].cycle = h[Len(h)].cycle - (Len(h) - i)
    <3>1. Len(h) \in DOMAIN h
      BY <2>1
    <3>2. h[i].cycle = n - (Len(h) - i) /\ h[Len(h)].cycle = n - (Len(h) - Len(h))
      BY <2>2, <3>1 DEF IsRun
    <3> QED
      BY <2>1, <3>2
  <2>4. ASSUME Settled, h = <<>>
        PROVE  cycle = 0
    BY <2>1, <2>4, SettledRun, EmptySeq DEF IsRun
  <2>5. ASSUME Settled, h # <<>>
        PROVE  /\ h[Len(h)].cycle = cycle
               /\ Len(h) = IF cycle < HistoryLimit THEN cycle ELSE HistoryLimit
    <3>1. IsRun(h, cycle)
      BY <2>5, SettledRun
    <3>2. Len(h) \in DOMAIN h
      BY <2>1, <2>5, EmptySeq
    <3>3. h[Len(h)].cycle = cycle - (Len(h) - Len(h))
      BY <3>1, <3>2 DEF IsRun
    <3>4. h[Len(h)].cycle = cycle
      BY <2>1, <3>3
    <3> QED
      BY <3>1, <3>4 DEF IsRun
  <2> QED
    BY <2>3, <2>4, <2>5
<1> QED
  BY <1>1, PageInvariant, PTL

\* A column is told from every other by its label, and the labels go up.
THEOREM ColumnsInOrder == StudioSpec => []ColumnsAreInOrder
<1>1. PageInv => ColumnsAreInOrder
  <2> SUFFICES ASSUME PageInv, ~crossed
               PROVE  LET h == shown.history
                      IN  /\ \A i \in DOMAIN h : Tooltip(h, ColumnLabel(h, i)) = Trace(h, i)
                          /\ cycle <= HistoryLimit /\ Settled =>
                                 \A i, j \in Columns(h) :
                                    i < j => ColumnLabel(h, i) < ColumnLabel(h, j)
    BY DEF ColumnsAreInOrder
  <2> DEFINE h == shown.history
  <2>1. /\ h \in Seq(Entry) /\ Len(h) \in Nat /\ DOMAIN h = 1 .. Len(h)
        /\ cycle \in Nat /\ HistoryLimit \in Nat \ {0} /\ MinColumns \in Nat
    BY StudioTypesPages, HistoryProperties, StudioAssumption
       DEF PageInv, StudioInv, StudioTypes, StudioTypeOK
  <2>2. PICK n \in Nat : IsRun(h, n)
    BY DEF PageInv, WaveformsAreRuns
  <2>3. ASSUME NEW i \in DOMAIN h
        PROVE  Tooltip(h, ColumnLabel(h, i)) = Trace(h, i)
    <3> DEFINE same == {j \in DOMAIN h : h[j].cycle = h[i].cycle
                                         /\ \A k \in 1 .. (j - 1) : h[k].cycle # h[i].cycle}
    <3>1. \A j \in DOMAIN h : h[j].cycle = n - (Len(h) - j)
      BY <2>2 DEF IsRun
    <3>2. \A j \in DOMAIN h : h[j].cycle = h[i].cycle => j = i
      BY <2>1, <3>1
    <3>3. \A k \in 1 .. (i - 1) : k \in DOMAIN h /\ k # i
      BY <2>1
    <3>4. same = {i}
      BY <3>2, <3>3
    <3> QED
      BY <3>4 DEF Tooltip, ColumnLabel, Trace
  <2>4. ASSUME cycle <= HistoryLimit, Settled, NEW i \in Columns(h), NEW j \in Columns(h), i < j
        PROVE  ColumnLabel(h, i) < ColumnLabel(h, j)
    <3>1. IsRun(h, cycle)
      BY <2>4, SettledRun
    <3>2. Len(h) = cycle
      BY <2>1, <2>4, <3>1 DEF IsRun
    <3>3. \A k \in DOMAIN h : h[k].cycle = k
      BY <2>1, <3>1, <3>2 DEF IsRun
    <3>4. \A k \in Columns(h) : ColumnLabel(h, k) = k
      BY <3>3 DEF ColumnLabel
    <3> QED
      BY <2>4, <3>4
  <2> QED
    BY <2>3, <2>4
<1> QED
  BY <1>1, PageInvariant, PTL
=============================================================================
