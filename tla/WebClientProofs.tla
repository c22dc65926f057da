--------------------------- MODULE WebClientProofs ---------------------------
(***************************************************************************)
(* What holds of the page for any number of accounts, sessions, uploads,   *)
(* polls, images and overlapping handlers.                                 *)
(***************************************************************************)
EXTENDS WebClient, FiniteSetTheorems, TLAPS

Slots == Calls \cup Ids
Shows == Clicks \cup Ids
AtRest == {"unsent", "over"}

\* One upload at most is under way, and only it has the list refreshed for it.
Uploads ==
    /\ \A i, j \in Ids : flow[i] \notin AtRest /\ flow[j] \notin AtRest => i = j
    /\ button => \A i \in Ids : flow[i] \in AtRest
    /\ ~button => \E i \in Ids : flow[i] \notin AtRest
    /\ \A i \in Ids : refresh[i] # NoCall => flow[i] \in {"list", "listToShow"}

\* An upload polls before its deadline only, and images are asked for in turn.
Polls ==
    \A i \in Ids : /\ flow[i] \in {"unsent", "negotiate", "put", "complete"} => polled[i] = 0
                   /\ flow[i] = "poll" => polled[i] < MaxPolls[i]
Images == \A k \in Shows : show[k] # NoShow => show[k].id \in Ids /\ show[k].size \in 1 .. Sizes

IInv == TypeOK /\ OneIdentity /\ PreviewsLive /\ Uploads /\ Polls /\ Images

LEMMA InitIInv == Init => IInv
  <1> SUFFICES ASSUME Init PROVE IInv
    OBVIOUS
  <1>0. polled \in [Ids -> Nat] /\ \A i \in Ids : polled[i] <= MaxPolls[i]
    BY BoundsAssumption DEF Init, Ids
  <1>1. TypeOK
    BY <1>0, BoundsAssumption DEF Init, TypeOK, Accounts, NoCall, NoShow
  <1>2. OneIdentity /\ PreviewsLive
    BY DEF Init, OneIdentity, PreviewsLive
  <1>3. Uploads /\ Polls /\ Images
    BY BoundsAssumption DEF Init, Uploads, Polls, Images, AtRest, Shows
  <1> QED
    BY <1>1, <1>2, <1>3 DEF IInv

-----------------------------------------------------------------------------
(***************************************************************************)
(* The session and the page's header.                                      *)
(***************************************************************************)
\* Only a login, a logout or a reload touches the session.
LEMMA StepIdentity ==
  ASSUME OneIdentity, [Next]_vars PROVE OneIdentity'
  <1>1. CASE UNCHANGED sessionVars
    BY <1>1 DEF sessionVars, OneIdentity
  <1>2. ASSUME NEW u \in Users, SubmitLogin(u) \/ LoginAnswered(u) PROVE OneIdentity'
    BY <1>2 DEF SubmitLogin, LoginAnswered, ApplySession, OneIdentity
  <1>3. CASE Logout \/ Boot
    BY <1>3 DEF Logout, Boot, ApplySession, OneIdentity
  <1>4. ASSUME NEW i \in Ids, SubmitUpload(i) \/ UploadHandler(i) PROVE UNCHANGED sessionVars
    BY <1>4 DEF SubmitUpload, UploadHandler, NegotiateAnswered, PutAnswered, CompleteAnswered,
       PollAnswered, Wakes, Throws
  <1>5. CASE ClickRefresh
    BY <1>1, <1>5 DEF ClickRefresh
  <1>6. ASSUME NEW c \in Slots, RefreshHandler(c) PROVE UNCHANGED sessionVars
    BY <1>6 DEF RefreshHandler, ListAnswered, StatusAnswered, RefreshThrows
  <1>7. ASSUME NEW k \in Shows, ClickImage(k) \/ ShowHandler(k) PROVE UNCHANGED sessionVars
    BY <1>7 DEF ClickImage, ShowHandler, VariantAnswered, ShowThrows
  <1> QED
    BY <1>1, <1>2, <1>3, <1>4, <1>5, <1>6, <1>7 DEF Next, vars, Slots, Shows

-----------------------------------------------------------------------------
(***************************************************************************)
(* The previews.                                                           *)
(***************************************************************************)
\* Every render begins by revoking what the one before it has on the page.
LEMMA StepPreviews ==
  ASSUME PreviewsLive, [Next]_vars PROVE PreviewsLive'
  <1>1. CASE UNCHANGED variantVars
    BY <1>1 DEF variantVars, PreviewsLive
  <1>2. ASSUME NEW k, NEW i, NEW complete, CallShow(k, i, complete) PROVE PreviewsLive'
    BY <1>2 DEF CallShow, PreviewsLive
  <1>3. ASSUME NEW u \in Users, SubmitLogin(u) \/ LoginAnswered(u) PROVE UNCHANGED variantVars
    BY <1>3 DEF SubmitLogin, LoginAnswered
  <1>4. CASE Logout
    BY <1>1, <1>4 DEF Logout
  <1>5. CASE Boot
    BY <1>5 DEF Boot, PreviewsLive
  <1>6. ASSUME NEW i \in Ids, SubmitUpload(i) \/ UploadHandler(i) PROVE PreviewsLive'
    BY <1>1, <1>2, <1>6 DEF SubmitUpload, UploadHandler, NegotiateAnswered, PutAnswered,
       CompleteAnswered, PollAnswered, Polled, Wakes, Throws, variantVars
  <1>7. CASE ClickRefresh
    BY <1>1, <1>7 DEF ClickRefresh
  <1>8. ASSUME NEW c \in Slots, RefreshHandler(c) PROVE PreviewsLive'
    <2>1. ASSUME NEW throws, RefreshEnds(c, throws) PROVE PreviewsLive'
      BY <1>1, <1>2, <2>1 DEF RefreshEnds
    <2> QED
      BY <1>1, <1>8, <2>1
      DEF RefreshHandler, ListAnswered, StatusAnswered, RefreshThrows, Renders
  <1>9. ASSUME NEW k \in Shows, ClickImage(k) \/ ShowHandler(k) PROVE PreviewsLive'
    BY <1>2, <1>9 DEF ClickImage, ShowHandler, VariantAnswered, ShowThrows, PreviewsLive
  <1> QED
    BY <1>1, <1>3, <1>4, <1>5, <1>6, <1>7, <1>8, <1>9 DEF Next, vars, Slots, Shows

-----------------------------------------------------------------------------
(***************************************************************************)
(* The upload form.                                                        *)
(***************************************************************************)
\* The calls of sessions and clicks are not those of uploads.
LEMMA SlotsDiffer == Calls \cap Ids = {} /\ Clicks \cap Ids = {} /\ Ids \subseteq Nat
  BY BoundsAssumption DEF Ids

\* An upload under way goes on.
LEMMA GoesOn ==
  ASSUME TypeOK, Uploads, NEW i \in Ids, flow[i] \notin AtRest, NEW x, x \notin AtRest,
         flow' = [flow EXCEPT ![i] = x], UNCHANGED button,
         \A j \in Ids \ {i} : refresh'[j] = refresh[j],
         refresh'[i] # NoCall => x \in {"list", "listToShow"}
  PROVE  Uploads'
  <1>1. flow'[i] = x /\ \A j \in Ids \ {i} : flow'[j] = flow[j]
    BY DEF TypeOK
  <1>2. button = FALSE
    BY DEF Uploads, TypeOK
  <1> QED
    BY <1>1, <1>2 DEF Uploads

\* The upload under way ends.
LEMMA Ends ==
  ASSUME TypeOK, Uploads, NEW i \in Ids, flow[i] \notin AtRest, Leaves(i),
         \A j \in Ids \ {i} : refresh'[j] = refresh[j], refresh'[i] = NoCall
  PROVE  Uploads'
  <1>1. flow'[i] = "over" /\ \A j \in Ids \ {i} : flow'[j] = flow[j] /\ flow[j] \in AtRest
    BY DEF TypeOK, Leaves, Goes, Uploads
  <1>2. button' = TRUE /\ "over" \in AtRest
    BY DEF Leaves, AtRest
  <1> QED
    BY <1>1, <1>2 DEF Uploads, AtRest

\* The end of a refresh is the end of the upload that awaits it.
LEMMA RefreshEndsUpload ==
  ASSUME TypeOK, Uploads, NEW c \in Slots, NEW throws \in BOOLEAN, refresh[c] # NoCall,
         RefreshEnds(c, throws)
  PROVE  Uploads'
  <1>1. refresh'[c] = NoCall /\ \A j \in Slots \ {c} : refresh'[j] = refresh[j]
    BY DEF RefreshEnds, TypeOK, Slots
  <1>2. CASE c \notin Ids
    BY <1>1, <1>2 DEF RefreshEnds, Uploads, uploadVars, Slots
  <1>3. CASE c \in Ids
    <2>1. flow[c] \notin AtRest /\ Leaves(c)
      BY <1>3 DEF RefreshEnds, Uploads, AtRest
    <2> QED
      BY <1>1, <1>3, <2>1, Ends DEF Slots
  <1> QED
    BY <1>2, <1>3

\* The upload that has stopped polling awaits a refresh, or ends.
LEMMA PolledKeeps ==
  ASSUME TypeOK, Uploads, NEW i \in Ids, flow[i] \in {"poll", "sleep"}, NEW complete \in BOOLEAN,
         Polled(i, complete)
  PROVE  Uploads'
  <1>1. flow[i] \notin AtRest /\ refresh[i] = NoCall
    BY DEF Uploads, AtRest
  <1>2. CASE token # "none"
    <2>1. PICK x \in {"list", "listToShow"} : flow' = [flow EXCEPT ![i] = x]
      BY <1>2 DEF Polled, Goes
    <2>2. UNCHANGED button /\ \A j \in Ids \ {i} : refresh'[j] = refresh[j]
      BY <1>2 DEF Polled, CallRefresh, TypeOK
    <2> QED
      BY <1>1, <2>1, <2>2, GoesOn DEF AtRest
  <1>3. CASE token = "none"
    BY <1>1, <1>3, Ends DEF Polled
  <1> QED
    BY <1>2, <1>3

\* The button is enabled when no upload is under way, in every next state.
LEMMA StepUploads ==
  ASSUME TypeOK, Uploads, [Next]_vars PROVE Uploads'
  <1>1. CASE UNCHANGED <<flow, button, refresh>>
    BY <1>1 DEF Uploads
  <1>2. ASSUME UNCHANGED <<flow, button>>, \A j \in Ids : refresh'[j] = refresh[j] PROVE Uploads'
    BY <1>2 DEF Uploads
  <1>3. ASSUME NEW c \in Calls, NEW u, CallRefresh(c, u), UNCHANGED <<flow, button>> PROVE Uploads'
    BY <1>2, <1>3, SlotsDiffer DEF CallRefresh, TypeOK
  <1>4. ASSUME NEW u \in Users, SubmitLogin(u) \/ LoginAnswered(u) PROVE Uploads'
    BY <1>1, <1>3, <1>4 DEF SubmitLogin, LoginAnswered, ApplySession, uploadVars, listVars
  <1>5. CASE Logout \/ ClickRefresh
    BY <1>1, <1>3, <1>5 DEF Logout, ClickRefresh, ApplySession, uploadVars
  <1>6. CASE Boot
    <2>1. button' = TRUE /\ \A i \in Ids : flow'[i] \in AtRest
      BY <1>6 DEF Boot, AtRest
    <2>2. \A i \in Ids : refresh'[i] = NoCall
      BY <1>6, SlotsDiffer DEF Boot
    <2> QED
      BY <2>1, <2>2 DEF Uploads
  <1>7. ASSUME NEW i \in Ids, SubmitUpload(i) PROVE Uploads'
    <2>1. button = TRUE /\ button' = FALSE /\ UNCHANGED refresh
      BY <1>7 DEF SubmitUpload, TypeOK, listVars
    <2>2. \A j \in Ids : flow[j] \in AtRest /\ refresh[j] = NoCall
      BY <2>1 DEF Uploads, AtRest
    <2>3. flow'[i] = "negotiate" /\ \A j \in Ids \ {i} : flow'[j] = flow[j]
      BY <1>7 DEF SubmitUpload, Goes, TypeOK
    <2> QED
      BY <2>1, <2>2, <2>3 DEF Uploads, AtRest
  <1>8. ASSUME NEW i \in Ids, flow[i] \in {"negotiate", "put", "complete", "poll", "sleep"},
               NEW x \in {"put", "complete", "poll", "sleep"}, Goes(i, flow[i], x),
               UNCHANGED <<button, refresh>>
        PROVE  Uploads'
    BY <1>8, GoesOn DEF Goes, Uploads, AtRest
  <1>9. ASSUME NEW i \in Ids, flow[i] \in {"negotiate", "put", "complete", "poll", "sleep"},
               Leaves(i), UNCHANGED refresh
        PROVE  Uploads'
    BY <1>9, Ends DEF Uploads, AtRest
  <1>10. ASSUME NEW i \in Ids, UploadHandler(i) PROVE Uploads'
    <2>1. CASE NegotiateAnswered(i)
      BY <1>8, <1>9, <2>1 DEF NegotiateAnswered, listVars
    <2>2. CASE PutAnswered(i)
      BY <1>8, <1>9, <2>2 DEF PutAnswered, listVars, Goes
    <2>3. CASE CompleteAnswered(i)
      BY <1>8, <1>9, <2>3 DEF CompleteAnswered, listVars, Goes
    <2>4. CASE PollAnswered(i)
      BY <1>8, <2>4, PolledKeeps DEF PollAnswered, Goes
    <2>5. CASE Wakes(i)
      BY <1>8, <2>5, PolledKeeps DEF Wakes, Goes
    <2>6. CASE Throws(i)
      BY <1>9, <2>6 DEF Throws, listVars
    <2> QED
      BY <1>10, <2>1, <2>2, <2>3, <2>4, <2>5, <2>6 DEF UploadHandler
  <1>11. ASSUME NEW c \in Slots, RefreshHandler(c) PROVE Uploads'
    <2>1. refresh[c] # NoCall
      <3>1. NoCall.at = "none"
        BY DEF NoCall
      <3>2. refresh[c].at \in {"list", "status"} \/ refresh[c] # NoCall
        BY <1>11 DEF RefreshHandler, ListAnswered, StatusAnswered, RefreshThrows
      <3> QED
        BY <3>1, <3>2
    <2>2. CASE RefreshEnds(c, TRUE) \/ RefreshEnds(c, FALSE)
      BY <2>1, <2>2, RefreshEndsUpload
    <2>3. CASE /\ \E r : refresh' = [refresh EXCEPT ![c] = r]
               /\ UNCHANGED <<flow, button>>
      <3>1. \A j \in Slots \ {c} : refresh'[j] = refresh[j]
        BY <2>3 DEF TypeOK, Slots
      <3> QED
        BY <2>1, <2>3, <3>1 DEF Uploads, Slots
    <2> QED
      BY <1>11, <2>2, <2>3
      DEF RefreshHandler, ListAnswered, StatusAnswered, RefreshThrows, Renders, uploadVars
  <1>12. ASSUME NEW k \in Shows, ClickImage(k) \/ ShowHandler(k) PROVE Uploads'
    BY <1>1, <1>12 DEF ClickImage, ShowHandler, VariantAnswered, ShowThrows, uploadVars, listVars
  <1>13. CASE UNCHANGED vars
    BY <1>1, <1>13 DEF vars, uploadVars, listVars
  <1> QED
    BY <1>4, <1>5, <1>6, <1>7, <1>10, <1>11, <1>12, <1>13 DEF Next, Slots, Shows

-----------------------------------------------------------------------------
(***************************************************************************)
(* Types, deadlines and sizes.                                             *)
(***************************************************************************)
\* What the handlers keep in each slot.
CallRecords == [at : {"none", "list", "status"}, as : Accounts, seen : SUBSET Ids, todo : SUBSET Ids]
ShowRecords == [id : {0} \cup Ids, as : Accounts, size : 0 .. Sizes]

SessionType ==
    /\ token \in Accounts /\ email \in Accounts /\ whoami \in Accounts
    /\ logins \subseteq Users /\ sessions \in 0 .. MaxSessions
FlowType ==
    /\ flow \in [Ids -> {"unsent", "negotiate", "put", "complete", "poll", "sleep",
                         "list", "listToShow", "over"}]
    /\ sentAs \in [Ids -> Accounts]
    /\ polled \in [Ids -> Nat] /\ \A i \in Ids : polled[i] <= MaxPolls[i]
    /\ button \in BOOLEAN
    /\ owner \in [Ids -> Accounts]
    /\ remembered \in [Accounts -> SUBSET Ids]
ListType == refresh \in [Slots -> CallRecords] /\ list \subseteq Ids
ShowType ==
    /\ show \in [Shows -> ShowRecords]
    /\ cards \cup variantURLs \cup live \subseteq Shows \X (1 .. Sizes)

LEMMA TypesAre == TypeOK <=> SessionType /\ FlowType /\ ListType /\ ShowType
  BY DEF TypeOK, SessionType, FlowType, ListType, ShowType, CallRecords, ShowRecords, Slots, Shows

\* The same in the next state.
LEMMA TypesAreNext == TypeOK' <=> SessionType' /\ FlowType' /\ ListType' /\ ShowType'
  BY TypesAre, PTL

\* refreshImages starts with what its account has.
LEMMA CallType ==
  ASSUME TypeOK, NEW c \in Slots, NEW u \in Accounts
  PROVE  /\ NoCall \in CallRecords
         /\ CallRefresh(c, u) => refresh' \in [Slots -> CallRecords]
  <1>1. Owned(u) \subseteq Ids
    BY DEF Owned
  <1>2. [at |-> "list", as |-> u, seen |-> Owned(u), todo |-> {}] \in CallRecords
    BY <1>1 DEF CallRecords
  <1>3. NoCall \in CallRecords
    BY DEF NoCall, CallRecords, Accounts
  <1> QED
    BY <1>2, <1>3 DEF CallRefresh, TypeOK, Slots, CallRecords

\* showVariants starts with the first image.
LEMMA ShowStarts ==
  ASSUME TypeOK, Images, NEW k \in Shows, NEW i \in Ids, NEW complete \in BOOLEAN,
         CallShow(k, i, complete)
  PROVE  ShowType' /\ Images'
  <1>1. 1 \in 1 .. Sizes /\ 1 \in 0 .. Sizes /\ 0 \in 0 .. Sizes
    BY BoundsAssumption
  <1>2. NoShow \in ShowRecords /\ [id |-> i, as |-> token, size |-> 1] \in ShowRecords
    BY <1>1 DEF ShowRecords, NoShow, TypeOK, Accounts
  <1>3. cards' = {} /\ variantURLs' = {} /\ live' \subseteq live
    BY DEF CallShow
  <1>4. show' \in [Shows -> ShowRecords]
    BY <1>2 DEF CallShow, TypeOK, Shows, ShowRecords
  <1>5. \A j \in Shows : show'[j] # NoShow => show'[j].id \in Ids /\ show'[j].size \in 1 .. Sizes
    BY <1>1 DEF CallShow, TypeOK, Images, Shows
  <1> QED
    BY <1>3, <1>4, <1>5 DEF ShowType, TypeOK, Shows, Images

\* The session's variables keep their types.
LEMMA StepSessionType ==
  ASSUME TypeOK, [Next]_vars PROVE SessionType'
  <1> USE DEF TypeOK, SessionType, Accounts
  <1>1. CASE UNCHANGED sessionVars
    BY <1>1 DEF sessionVars
  <1>2. ASSUME NEW u \in Users, SubmitLogin(u) \/ LoginAnswered(u) PROVE SessionType'
    BY <1>2, BoundsAssumption DEF SubmitLogin, LoginAnswered, ApplySession
  <1>3. CASE Logout \/ Boot
    BY <1>3 DEF Logout, Boot, ApplySession
  <1>4. ASSUME NEW i \in Ids, SubmitUpload(i) \/ UploadHandler(i) PROVE UNCHANGED sessionVars
    BY <1>4 DEF SubmitUpload, UploadHandler, NegotiateAnswered, PutAnswered, CompleteAnswered,
       PollAnswered, Wakes, Throws
  <1>5. CASE ClickRefresh
    BY <1>1, <1>5 DEF ClickRefresh
  <1>6. ASSUME NEW c \in Slots, RefreshHandler(c) PROVE UNCHANGED sessionVars
    BY <1>6 DEF RefreshHandler, ListAnswered, StatusAnswered, RefreshThrows
  <1>7. ASSUME NEW k \in Shows, ClickImage(k) \/ ShowHandler(k) PROVE UNCHANGED sessionVars
    BY <1>7 DEF ClickImage, ShowHandler, VariantAnswered, ShowThrows
  <1> QED
    BY <1>1, <1>2, <1>3, <1>4, <1>5, <1>6, <1>7 DEF Next, vars, Slots, Shows

\* The list and the refreshes keep theirs.
LEMMA StepListType ==
  ASSUME TypeOK, [Next]_vars PROVE ListType'
  <1> ListType /\ token \in Accounts
    BY DEF TypeOK, ListType, Slots, CallRecords
  <1>1. CASE UNCHANGED listVars
    BY <1>1 DEF listVars, ListType
  <1>2. ASSUME NEW c \in Slots, NEW u \in Accounts, CallRefresh(c, u), list' = list \/ list' = {}
        PROVE  ListType'
    BY <1>2, CallType DEF ListType
  <1>3. ASSUME NEW u \in Accounts, ApplySession(u) PROVE ListType'
    BY <1>1, <1>2, <1>3 DEF ApplySession, ListType, Slots
  <1>4. ASSUME NEW c \in Slots, NEW throws, RefreshEnds(c, throws), list' \subseteq Ids PROVE ListType'
    BY <1>4, CallType DEF RefreshEnds, ListType
  <1>5. ASSUME NEW u \in Users, SubmitLogin(u) \/ LoginAnswered(u) PROVE ListType'
    BY <1>1, <1>3, <1>5 DEF SubmitLogin, LoginAnswered, Accounts
  <1>6. CASE Logout \/ ClickRefresh
    BY <1>2, <1>3, <1>6 DEF Logout, ClickRefresh, Accounts, Slots
  <1>7. CASE Boot
    <2>1. [at |-> "list", as |-> token, seen |-> Owned(token), todo |-> {}] \in CallRecords
      BY DEF CallRecords, Owned
    <2>2. NoCall \in CallRecords
      BY DEF NoCall, CallRecords, Accounts
    <2> QED
      BY <1>7, <2>1, <2>2 DEF Boot, ListType, Slots
  <1>8. ASSUME NEW i \in Ids, SubmitUpload(i) \/ UploadHandler(i) PROVE ListType'
    <2>1. ASSUME NEW complete, Polled(i, complete), UNCHANGED list PROVE ListType'
      BY <1>1, <1>2, <2>1 DEF Polled, Slots, listVars
    <2> QED
      BY <1>1, <1>8, <2>1 DEF SubmitUpload, UploadHandler, NegotiateAnswered, PutAnswered,
         CompleteAnswered, PollAnswered, Wakes, Throws, listVars
  <1>9. ASSUME NEW c \in Slots, RefreshHandler(c) PROVE ListType'
    <2>1. CASE RefreshThrows(c)
      BY <1>4, <2>1 DEF RefreshThrows, ListType
    <2>2. CASE ListAnswered(c)
      <3>1. ASSUME NEW ids \in SUBSET Owned(refresh[c].as), Renders(c, ids) PROVE ListType'
        BY <1>4, <3>1 DEF Renders, Owned
      <3>2. CASE Renders(c, {})
        BY <1>4, <3>2 DEF Renders
      <3>3. CASE refresh' = [refresh EXCEPT ![c] = [at |-> "status", as |-> token, seen |-> {},
                                                    todo |-> remembered[token]]] /\ UNCHANGED list
        <4>1. [at |-> "status", as |-> token, seen |-> {}, todo |-> remembered[token]] \in CallRecords
          BY DEF CallRecords, TypeOK
        <4> QED
          BY <3>3, <4>1 DEF ListType
      <3> QED
        BY <2>2, <3>1, <3>2, <3>3 DEF ListAnswered
    <2>3. CASE StatusAnswered(c)
      <3>1. refresh[c].todo \subseteq Ids /\ refresh[c].seen \subseteq Ids
        BY DEF ListType, CallRecords
      <3>2. PICK i \in refresh[c].todo, ok \in SUBSET refresh[c].todo :
                \/ Renders(c, refresh[c].seen \cup ok)
                \/ /\ refresh' = [refresh EXCEPT ![c] = [at |-> "status", as |-> token,
                                       seen |-> refresh[c].seen \cup ok, todo |-> refresh[c].todo \ {i}]]
                   /\ UNCHANGED list
        BY <2>3 DEF StatusAnswered
      <3>3. ok \subseteq Ids
        BY <3>1
      <3>4. CASE Renders(c, refresh[c].seen \cup ok)
        BY <1>4, <3>1, <3>3, <3>4 DEF Renders
      <3>5. [at |-> "status", as |-> token, seen |-> refresh[c].seen \cup ok,
             todo |-> refresh[c].todo \ {i}] \in CallRecords
        BY <3>1, <3>3 DEF CallRecords
      <3> QED
        BY <3>2, <3>4, <3>5 DEF ListType
    <2> QED
      BY <1>9, <2>1, <2>2, <2>3 DEF RefreshHandler
  <1>10. ASSUME NEW k \in Shows, ClickImage(k) \/ ShowHandler(k) PROVE ListType'
    BY <1>1, <1>10 DEF ClickImage, ShowHandler, VariantAnswered, ShowThrows
  <1> QED
    BY <1>1, <1>5, <1>6, <1>7, <1>8, <1>9, <1>10 DEF Next, vars, Slots, Shows

\* The previews keep theirs, and no image is asked for after the last.
LEMMA StepShowType ==
  ASSUME TypeOK, Images, [Next]_vars PROVE ShowType' /\ Images'
  <1> ShowType
    BY TypesAre
  <1>1. CASE UNCHANGED variantVars
    BY <1>1 DEF variantVars, ShowType, Images
  <1>2. ASSUME NEW k \in Shows, NEW i \in Ids, NEW complete \in BOOLEAN, CallShow(k, i, complete)
        PROVE  ShowType' /\ Images'
    BY <1>2, ShowStarts
  <1>3. ASSUME NEW u \in Users, SubmitLogin(u) \/ LoginAnswered(u) PROVE UNCHANGED variantVars
    BY <1>3 DEF SubmitLogin, LoginAnswered
  <1>4. CASE Logout \/ ClickRefresh
    BY <1>1, <1>4 DEF Logout, ClickRefresh
  <1>5. CASE Boot
    BY <1>5, BoundsAssumption
    DEF Boot, ShowType, Images, ShowRecords, NoShow, Accounts, Shows
  <1>6. ASSUME NEW i \in Ids, SubmitUpload(i) \/ UploadHandler(i) PROVE ShowType' /\ Images'
    <2>1. ASSUME NEW complete \in BOOLEAN, Polled(i, complete) PROVE ShowType' /\ Images'
      BY <1>1, <1>2, <2>1 DEF Polled, Shows
    <2> QED
      BY <1>1, <1>6, <2>1 DEF SubmitUpload, UploadHandler, NegotiateAnswered, PutAnswered,
         CompleteAnswered, PollAnswered, Wakes, Throws, variantVars
  <1>7. ASSUME NEW c \in Slots, RefreshHandler(c) PROVE ShowType' /\ Images'
    <2>1. ASSUME NEW throws, RefreshEnds(c, throws) PROVE ShowType' /\ Images'
      BY <1>1, <1>2, <2>1 DEF RefreshEnds, Shows
    <2> QED
      BY <1>1, <1>7, <2>1
      DEF RefreshHandler, ListAnswered, StatusAnswered, RefreshThrows, Renders
  <1>8. ASSUME NEW k \in Clicks, ClickImage(k) PROVE ShowType' /\ Images'
    BY <1>2, <1>8 DEF ClickImage, Shows, TypeOK
  <1>9. ASSUME NEW k \in Shows, ShowThrows(k) PROVE ShowType' /\ Images'
    <2>1. NoShow \in ShowRecords
      BY BoundsAssumption DEF NoShow, ShowRecords, Accounts
    <2> QED
      BY <1>9, <2>1 DEF ShowThrows, ShowType, Images
  <1>10. ASSUME NEW k \in Shows, VariantAnswered(k) PROVE ShowType' /\ Images'
    <2>1. show[k].id \in Ids /\ show[k].size \in 1 .. Sizes /\ show[k] \in ShowRecords
      BY <1>10 DEF VariantAnswered, Images, ShowType
    <2>2. <<k, show[k].size>> \in Shows \X (1 .. Sizes)
      BY <2>1
    <2>3. cards' \cup variantURLs' \cup live' \subseteq Shows \X (1 .. Sizes)
      BY <1>10, <2>2 DEF VariantAnswered, ShowType
    <2> DEFINE r == IF show[k].size = Sizes THEN NoShow
                    ELSE [show[k] EXCEPT !.as = token, !.size = show[k].size + 1]
    <2>4. show' = [show EXCEPT ![k] = r]
      BY <1>10 DEF VariantAnswered
    <2>5. r \in ShowRecords /\ (r # NoShow => r.id \in Ids /\ r.size \in 1 .. Sizes)
      <3>1. CASE show[k].size = Sizes
        BY <2>4, <3>1, BoundsAssumption DEF NoShow, ShowRecords, Accounts
      <3>2. CASE show[k].size # Sizes
        <4>1. show[k].size + 1 \in 1 .. Sizes
          BY <2>1, <3>2, BoundsAssumption
        <4>2. r = [id |-> show[k].id, as |-> token, size |-> show[k].size + 1]
          BY <2>1, <2>4, <3>2 DEF ShowRecords
        <4> QED
          BY <2>1, <4>1, <4>2, BoundsAssumption DEF ShowRecords, TypeOK
      <3> QED
        BY <3>1, <3>2
    <2> HIDE DEF r
    <2> QED
      BY <2>3, <2>4, <2>5 DEF ShowType, Images
  <1> QED
    BY <1>1, <1>3, <1>4, <1>5, <1>6, <1>7, <1>8, <1>9, <1>10
    DEF Next, vars, Slots, Shows, ShowHandler

\* An upload makes no more polls than its deadline allows.
LEMMA StepFlowType ==
  ASSUME TypeOK, Uploads, Polls, [Next]_vars PROVE FlowType' /\ Polls'
  <1> FlowType /\ token \in Accounts /\ Users \subseteq Accounts
    BY TypesAre DEF SessionType, Accounts
  <1> DEFINE Places == {"unsent", "negotiate", "put", "complete", "poll", "sleep",
                        "list", "listToShow", "over"}
  <1>1. CASE UNCHANGED uploadVars
    BY <1>1 DEF uploadVars, FlowType, Polls
  <1>2. ASSUME NEW i \in Ids, NEW x \in Places, flow' = [flow EXCEPT ![i] = x],
               NEW u \in Accounts, sentAs' = [sentAs EXCEPT ![i] = u] \/ UNCHANGED sentAs,
               button' \in BOOLEAN, UNCHANGED polled,
               x \in {"unsent", "negotiate", "put", "complete"} => polled[i] = 0,
               x = "poll" => polled[i] < MaxPolls[i],
               owner' \in [Ids -> Accounts], remembered' \in [Accounts -> SUBSET Ids]
        PROVE  FlowType' /\ Polls'
    BY <1>2 DEF FlowType, Polls
  <1>3. ASSUME NEW u \in Users, SubmitLogin(u) \/ LoginAnswered(u) PROVE UNCHANGED uploadVars
    BY <1>3 DEF SubmitLogin, LoginAnswered
  <1>4. CASE Logout \/ ClickRefresh
    BY <1>1, <1>4 DEF Logout, ClickRefresh
  <1>5. CASE Boot
    BY <1>5, BoundsAssumption DEF Boot, FlowType, Polls, Accounts
  <1>6. ASSUME NEW i \in Ids, SubmitUpload(i) PROVE FlowType' /\ Polls'
    BY <1>2, <1>6 DEF SubmitUpload, Goes, Sends, Polls, FlowType
  <1>7. ASSUME NEW i \in Ids, flow[i] \notin AtRest, Leaves(i), UNCHANGED polled,
               owner' \in [Ids -> Accounts], remembered' \in [Accounts -> SUBSET Ids]
        PROVE  FlowType' /\ Polls'
    BY <1>2, <1>7 DEF Leaves, Goes, Accounts
  <1>8. ASSUME NEW i \in Ids, flow[i] \in {"poll", "sleep"}, Polled(i, TRUE) \/ Polled(i, FALSE)
        PROVE  /\ \E x \in {"list", "listToShow", "over"} : flow' = [flow EXCEPT ![i] = x]
               /\ \E u \in Accounts : sentAs' = [sentAs EXCEPT ![i] = u] \/ UNCHANGED sentAs
               /\ button' \in BOOLEAN
    BY <1>8 DEF Polled, Leaves, Goes, Accounts, FlowType
  <1>9. ASSUME NEW i \in Ids, UploadHandler(i) PROVE FlowType' /\ Polls'
    <2>1. CASE NegotiateAnswered(i)
      <3>1. sentAs[i] \in Accounts /\ "none" \in Accounts /\ flow[i] \notin AtRest /\ polled[i] = 0
        BY <2>1 DEF NegotiateAnswered, FlowType, Accounts, AtRest, Polls
      <3>2. owner' \in [Ids -> Accounts] /\ remembered' \in [Accounts -> SUBSET Ids]
        BY <2>1, <3>1 DEF NegotiateAnswered, FlowType
      <3>3. CASE Leaves(i)
        BY <1>7, <2>1, <3>1, <3>2, <3>3 DEF NegotiateAnswered
      <3>4. CASE Goes(i, "negotiate", "put") /\ UNCHANGED <<sentAs, button>>
        BY <1>2, <2>1, <3>1, <3>2, <3>4 DEF NegotiateAnswered, Goes, FlowType
      <3> QED
        BY <2>1, <3>3, <3>4 DEF NegotiateAnswered
    <2>2. CASE PutAnswered(i) \/ CompleteAnswered(i)
      <3>1. flow[i] \notin AtRest /\ polled[i] = 0 /\ 0 < MaxPolls[i]
        BY <2>2, BoundsAssumption DEF Ids, PutAnswered, CompleteAnswered, AtRest, Polls
      <3> UNCHANGED <<polled, owner, remembered>>
        BY <2>2 DEF PutAnswered, CompleteAnswered
      <3>2. CASE Leaves(i)
        BY <1>7, <3>1, <3>2 DEF FlowType
      <3>3. CASE \E x \in {"complete", "poll"} : Goes(i, flow[i], x) /\ Sends(i) /\ UNCHANGED button
        BY <1>2, <2>2, <3>1, <3>3 DEF PutAnswered, CompleteAnswered, Goes, Sends, FlowType
      <3> QED
        BY <2>2, <3>2, <3>3 DEF PutAnswered, CompleteAnswered, Goes
    <2>3. CASE PollAnswered(i)
      <3>1. polled[i] < MaxPolls[i] /\ polled[i] \in Nat /\ flow[i] = "poll"
        BY <2>3, BoundsAssumption DEF PollAnswered, Polls, FlowType
      <3>2. polled[i] + 1 \in Nat /\ polled[i] + 1 <= MaxPolls[i]
        BY <3>1, BoundsAssumption DEF Ids
      <3>3. /\ polled' \in [Ids -> Nat] /\ polled'[i] <= MaxPolls[i]
            /\ \A j \in Ids \ {i} : polled'[j] = polled[j]
        BY <2>3, <3>2 DEF PollAnswered, FlowType
      <3>4. /\ \E x \in {"sleep", "list", "listToShow", "over"} : flow' = [flow EXCEPT ![i] = x]
            /\ \E u \in Accounts : sentAs' = [sentAs EXCEPT ![i] = u] \/ UNCHANGED sentAs
            /\ button' \in BOOLEAN
        BY <1>8, <2>3, <3>1 DEF PollAnswered, Goes, FlowType
      <3> QED
        BY <2>3, <3>3, <3>4 DEF PollAnswered, FlowType, Polls
    <2>4. CASE Wakes(i)
      <3>1. UNCHANGED <<polled, owner, remembered>> /\ flow[i] = "sleep"
        BY <2>4 DEF Wakes
      <3>2. CASE polled[i] < MaxPolls[i] /\ Goes(i, "sleep", "poll") /\ Sends(i) /\ UNCHANGED button
        BY <1>2, <3>1, <3>2 DEF Goes, Sends, FlowType
      <3>3. CASE Polled(i, FALSE)
        BY <1>2, <1>8, <3>1, <3>3 DEF FlowType
      <3> QED
        BY <2>4, <3>2, <3>3 DEF Wakes
    <2>5. CASE Throws(i)
      BY <1>7, <2>5 DEF Throws, FlowType, AtRest
    <2> QED
      BY <1>9, <2>1, <2>2, <2>3, <2>4, <2>5 DEF UploadHandler
  <1>10. ASSUME NEW c \in Slots, RefreshHandler(c) PROVE FlowType' /\ Polls'
    <2>1. refresh[c] # NoCall
      <3>1. NoCall.at = "none"
        BY DEF NoCall
      <3>2. refresh[c].at \in {"list", "status"} \/ refresh[c] # NoCall
        BY <1>10 DEF RefreshHandler, ListAnswered, StatusAnswered, RefreshThrows
      <3> QED
        BY <3>1, <3>2
    <2>2. ASSUME NEW throws, RefreshEnds(c, throws) PROVE FlowType' /\ Polls'
      <3>1. CASE c \notin Ids
        BY <1>1, <2>2, <3>1 DEF RefreshEnds
      <3>2. CASE c \in Ids
        BY <1>7, <2>1, <2>2, <3>2 DEF RefreshEnds, Uploads, AtRest, FlowType
      <3> QED
        BY <3>1, <3>2
    <2> QED
      BY <1>1, <1>10, <2>2
      DEF RefreshHandler, ListAnswered, StatusAnswered, RefreshThrows, Renders
  <1>11. ASSUME NEW k \in Shows, ClickImage(k) \/ ShowHandler(k) PROVE UNCHANGED uploadVars
    BY <1>11 DEF ClickImage, ShowHandler, VariantAnswered, ShowThrows
  <1> QED
    BY <1>1, <1>3, <1>4, <1>5, <1>6, <1>9, <1>10, <1>11 DEF Next, vars, Slots, Shows

-----------------------------------------------------------------------------
\* The invariant holds of every behaviour of the page.
THEOREM Invariance == SafeSpec => []IInv
  <1>1. IInv /\ [Next]_vars => IInv'
    BY StepIdentity, StepPreviews, StepUploads, StepSessionType, StepFlowType, StepListType,
       StepShowType, TypesAreNext DEF IInv
  <1> QED
    BY InitIInv, <1>1, PTL DEF SafeSpec

\* Every variable keeps its type: no poll comes after the deadline, and no image
\* is asked for after the last.
THEOREM TypeCorrect == SafeSpec => []TypeOK
  BY Invariance, PTL DEF IInv

\* OneIdentity: email, header and token are one account's.
THEOREM IdentityIsOne == SafeSpec => []OneIdentity
  BY Invariance, PTL DEF IInv

\* PreviewsLive: no object URL leaks, and no card shows a revoked one.
THEOREM PreviewsAreLive == SafeSpec => []PreviewsLive
  BY Invariance, PTL DEF IInv

\* OneUpload: the button is disabled exactly while an upload, the only one, is
\* under way.
THEOREM UploadIsOne == SafeSpec => []OneUpload
  <1>1. ASSUME IInv PROVE OneUpload
    <2> DEFINE running == {i \in Ids : flow[i] \notin {"unsent", "over"}}
    <2>1. button <=> running = {}
      BY <1>1 DEF IInv, Uploads, AtRest
    <2>2. Cardinality(running) <= 1
      <3>1. CASE running = {}
        BY <3>1, FS_EmptySet
      <3>2. CASE running # {}
        <4>1. PICK i \in Ids : running = {i}
          BY <1>1, <3>2 DEF IInv, Uploads, AtRest
        <4> HIDE DEF running
        <4> QED
          BY <4>1, FS_Singleton
      <3> QED
        BY <3>1, <3>2
    <2> QED
      BY <2>1, <2>2 DEF OneUpload
  <1> QED
    BY <1>1, Invariance, PTL
=============================================================================
