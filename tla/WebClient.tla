------------------------------ MODULE WebClient ------------------------------
(***************************************************************************)
(* The browser page (internal/web/static/app.js) in one tab.  A handler    *)
(* runs without interruption up to its next await; while it waits for a    *)
(* request, any other handler runs, and what it left in localStorage, in   *)
(* module variables or on the page may have changed when it goes on.  An   *)
(* action is the code from one await to the next.                          *)
(*                                                                         *)
(* The API is what the page sees of it: a request is answered, in any      *)
(* order, for the account whose token it carried, or it fails.             *)
(***************************************************************************)
EXTENDS Naturals, FiniteSets

CONSTANTS
    Users,       \* accounts
    MaxSessions, \* bound: submissions of the login form
    MaxUploads,  \* bound: submissions of the upload form
    MaxPolls,    \* polls that fit before the deadline of pollStatus, for each upload
    Sizes,       \* images that showVariants asks for, 3 in the code
    Calls,       \* bound: refreshes by sessions and clicks, under way at once
    Clicks       \* bound: clicks on an image of the list

ASSUME AccountsAssumption == "none" \notin Users
ASSUME BoundsAssumption ==
    /\ MaxSessions \in Nat /\ MaxUploads \in Nat /\ Sizes \in Nat \ {0}
    /\ MaxPolls \in [1 .. MaxUploads -> Nat \ {0}]
    /\ (Calls \cup Clicks) \cap Nat = {}

VARIABLES
    token,       \* localStorage gis:token: the account it was issued to
    email,       \* localStorage gis:email: the account it belongs to
    whoami,      \* the account in the page's header
    logins,      \* accounts with a POST /login under way
    sessions,    \* logins submitted so far
    flow,        \* where the upload handler is, for each submission; in
                 \* "listToShow" a showVariants follows the refresh
    sentAs,      \* whose token the request it waits for carries
    polled,      \* polls it has made
    button,      \* the upload button is enabled
    owner,       \* whose row POST /uploads has inserted
    remembered,  \* localStorage gis:ids:<account>
    refresh,     \* refreshImages under way, by slot or by the upload that awaits it
    list,        \* ids on the image list
    show,        \* showVariants under way, by the click or upload that called it
    cards,       \* variants on the page, each by its object URL
    variantURLs, \* the module variable
    live         \* object URLs created and not revoked

sessionVars == <<token, email, whoami, logins, sessions>>
uploadVars == <<flow, sentAs, polled, button, owner, remembered>>
listVars == <<refresh, list>>
variantVars == <<show, cards, variantURLs, live>>
vars == <<sessionVars, uploadVars, listVars, variantVars>>

Accounts == Users \cup {"none"}
Ids == 1 .. MaxUploads
Owned(u) == {i \in Ids : u # "none" /\ owner[i] = u}

\* refreshImages waits for GET /images while at is "list", and seen is what the
\* account had when it was sent; it asks for remembered ids while at is
\* "status", and seen is what it has collected so far.
NoCall == [at |-> "none", as |-> "none", seen |-> {}, todo |-> {}]

\* showVariants waits for the size-th of SIZES.
NoShow == [id |-> 0, as |-> "none", size |-> 0]

Init ==
    /\ token = "none" /\ email = "none" /\ whoami = "none"
    /\ logins = {} /\ sessions = 0
    /\ flow = [i \in Ids |-> "unsent"]
    /\ sentAs = [i \in Ids |-> "none"]
    /\ polled = [i \in Ids |-> 0]
    /\ button = TRUE
    /\ owner = [i \in Ids |-> "none"]
    /\ remembered = [u \in Accounts |-> {}]
    /\ refresh = [c \in Calls \cup Ids |-> NoCall]
    /\ list = {}
    /\ show = [k \in Clicks \cup Ids |-> NoShow]
    /\ cards = {} /\ variantURLs = {} /\ live = {}

-----------------------------------------------------------------------------
(***************************************************************************)
(* What handlers call.                                                     *)
(***************************************************************************)
\* refreshImages with a token, up to its first await.
CallRefresh(c, u) ==
    /\ refresh[c] = NoCall
    /\ refresh' = [refresh EXCEPT ![c] =
                      [at |-> "list", as |-> u, seen |-> Owned(u), todo |-> {}]]

\* applySession, when localStorage holds the token of u.
ApplySession(u) ==
    /\ whoami' = u
    /\ IF u = "none" THEN list' = {} /\ UNCHANGED refresh
                     ELSE (\E c \in Calls : CallRefresh(c, u)) /\ UNCHANGED list

\* Mutant: the URLs of a render are forgotten by the next one, not revoked.
BugForgetURLs(k, i, complete) ==
    /\ UNCHANGED live
    /\ variantURLs' = {}
    /\ cards' = {}
    /\ show' = [show EXCEPT ![k] = IF complete THEN [id |-> i, as |-> token, size |-> 1] ELSE NoShow]

\* showVariants, up to its first await.
CallShow(k, i, complete) ==
    /\ live' = live \ variantURLs
    /\ variantURLs' = {}
    /\ cards' = {}
    /\ show' = [show EXCEPT ![k] = IF complete THEN [id |-> i, as |-> token, size |-> 1] ELSE NoShow]

-----------------------------------------------------------------------------
(***************************************************************************)
(* Session.                                                                *)
(***************************************************************************)
SubmitLogin(u) ==
    /\ sessions < MaxSessions
    /\ u \notin logins
    /\ sessions' = sessions + 1
    /\ logins' = logins \cup {u}
    /\ UNCHANGED <<token, email, whoami, uploadVars, listVars, variantVars>>

\* Mutant: the page shows the account of the form, not that of the token.
BugEmailFirst(u) ==
    /\ u \in logins
    /\ logins' = logins \ {u}
    /\ email' = u
    /\ \/ token' = u /\ ApplySession(u)
       \/ UNCHANGED <<token, whoami, listVars>>
    /\ UNCHANGED <<sessions, uploadVars, variantVars>>

LoginAnswered(u) ==
    /\ u \in logins
    /\ logins' = logins \ {u}
    /\ \/ token' = u /\ email' = u /\ ApplySession(u)
       \/ UNCHANGED <<token, email, whoami, listVars>>
    /\ UNCHANGED <<sessions, uploadVars, variantVars>>

Logout ==
    /\ token # "none"
    /\ token' = "none" /\ email' = "none" /\ ApplySession("none")
    /\ UNCHANGED <<logins, sessions, uploadVars, variantVars>>

\* The page is loaded again: handlers, object URLs and module variables are
\* gone, localStorage is not, and what was sent may still take effect.
Boot ==
    /\ logins' = {}
    /\ whoami' = email
    /\ flow' = [i \in Ids |-> IF flow[i] = "unsent" THEN "unsent" ELSE "over"]
    /\ button' = TRUE
    /\ \E inserted \in SUBSET {i \in Ids : flow[i] = "negotiate"} :
          owner' = [i \in Ids |-> IF i \in inserted THEN sentAs[i] ELSE owner[i]]
    /\ \E c \in Calls :
          refresh' = [d \in Calls \cup Ids |->
              IF d = c /\ token # "none" THEN [at |-> "list", as |-> token, seen |-> Owned(token), todo |-> {}]
                                        ELSE NoCall]
    /\ list' = {}
    /\ show' = [k \in Clicks \cup Ids |-> NoShow]
    /\ cards' = {} /\ variantURLs' = {} /\ live' = {}
    /\ sentAs' = [i \in Ids |-> "none"]
    /\ UNCHANGED <<token, email, sessions, polled, remembered>>

-----------------------------------------------------------------------------
(***************************************************************************)
(* The handler of the upload form.  Every request after the first reads    *)
(* the token afresh, and so does rememberID.                               *)
(***************************************************************************)
Goes(i, from, to) ==
    /\ flow[i] = from
    /\ flow' = [flow EXCEPT ![i] = to]

Sends(i) == sentAs' = [sentAs EXCEPT ![i] = token]

\* An early return or an exception, and the finally block.
Leaves(i) ==
    /\ Goes(i, flow[i], "over")
    /\ button' = TRUE
    /\ sentAs' = [sentAs EXCEPT ![i] = "none"]

SubmitUpload(i) ==
    /\ button
    /\ \A j \in Ids : flow[j] = "unsent" => i <= j
    /\ Goes(i, "unsent", "negotiate")
    /\ Sends(i)
    /\ button' = FALSE
    /\ UNCHANGED <<polled, owner, remembered, sessionVars, listVars, variantVars>>

\* A failure may hide from the page a row that was inserted.
NegotiateAnswered(i) ==
    /\ flow[i] = "negotiate"
    /\ \/ /\ sentAs[i] # "none"
          /\ owner' = [owner EXCEPT ![i] = sentAs[i]]
          /\ remembered' = [remembered EXCEPT ![token] = @ \cup {i}]
          /\ Goes(i, "negotiate", "put")
          /\ UNCHANGED <<sentAs, button>>
       \/ /\ \E u \in {"none", sentAs[i]} : owner' = [owner EXCEPT ![i] = u]
          /\ Leaves(i)
          /\ UNCHANGED remembered
    /\ UNCHANGED <<polled, sessionVars, listVars, variantVars>>

PutAnswered(i) ==
    /\ flow[i] = "put"
    /\ \/ Goes(i, "put", "complete") /\ Sends(i) /\ UNCHANGED button
       \/ Leaves(i)
    /\ UNCHANGED <<polled, owner, remembered, sessionVars, listVars, variantVars>>

CompleteAnswered(i) ==
    /\ flow[i] = "complete"
    /\ \/ sentAs[i] = owner[i] /\ Goes(i, "complete", "poll") /\ Sends(i) /\ UNCHANGED button
       \/ Leaves(i)
    /\ UNCHANGED <<polled, owner, remembered, sessionVars, listVars, variantVars>>

\* Mutant: the button is enabled when the status is known, before the list is.
BugEarlyButton(i, complete) ==
    /\ \/ /\ token # "none"
          /\ Goes(i, flow[i], IF complete THEN "listToShow" ELSE "list")
          /\ CallRefresh(i, token)
          /\ button' = TRUE
          /\ UNCHANGED <<sentAs, variantVars>>
       \/ /\ token = "none"
          /\ Leaves(i)
          /\ IF complete THEN CallShow(i, i, TRUE) ELSE UNCHANGED variantVars
          /\ UNCHANGED refresh

\* pollStatus has returned: await refreshImages, which without a token is over
\* at once, and then call showVariants if the status was complete.
Polled(i, complete) ==
    /\ \/ /\ token # "none"
          /\ Goes(i, flow[i], IF complete THEN "listToShow" ELSE "list")
          /\ CallRefresh(i, token)
          /\ UNCHANGED <<sentAs, button, variantVars>>
       \/ /\ token = "none"
          /\ Leaves(i)
          /\ IF complete THEN CallShow(i, i, TRUE) ELSE UNCHANGED variantVars
          /\ UNCHANGED refresh

\* A status that is not final, a final one, or an error that ends the polling.
PollAnswered(i) ==
    /\ flow[i] = "poll"
    /\ polled' = [polled EXCEPT ![i] = @ + 1]
    /\ \/ /\ sentAs[i] = owner[i]
          /\ Goes(i, "poll", "sleep")
          /\ UNCHANGED <<sentAs, button, refresh, variantVars>>
       \/ sentAs[i] = owner[i] /\ Polled(i, TRUE)
       \/ Polled(i, FALSE)
    /\ UNCHANGED <<owner, remembered, sessionVars, list>>

\* Mutant: polling goes on until the status is final.
BugNoDeadline(i) ==
    /\ flow[i] = "sleep"
    /\ Goes(i, "sleep", "poll") /\ Sends(i)
    /\ polled' = [polled EXCEPT ![i] = 0]
    /\ UNCHANGED <<button, refresh, variantVars>>
    /\ UNCHANGED <<owner, remembered, sessionVars, list>>

\* Mutant: one more poll after the deadline.
BugLatePoll(i) ==
    /\ flow[i] = "sleep"
    /\ \/ /\ polled[i] <= MaxPolls[i]
          /\ Goes(i, "sleep", "poll") /\ Sends(i)
          /\ UNCHANGED <<button, refresh, variantVars>>
       \/ Polled(i, FALSE)
    /\ UNCHANGED <<polled, owner, remembered, sessionVars, list>>

\* The timeout of a second, and the deadline, which slow answers bring nearer.
Wakes(i) ==
    /\ flow[i] = "sleep"
    /\ \/ /\ polled[i] < MaxPolls[i]
          /\ Goes(i, "sleep", "poll") /\ Sends(i)
          /\ UNCHANGED <<button, refresh, variantVars>>
       \/ Polled(i, FALSE)
    /\ UNCHANGED <<polled, owner, remembered, sessionVars, list>>

\* The body of an answer breaks off, or is not JSON: api throws.
Throws(i) ==
    /\ flow[i] \in {"negotiate", "complete", "poll"}
    /\ Leaves(i)
    /\ UNCHANGED <<polled, owner, remembered, sessionVars, listVars, variantVars>>

UploadHandler(i) ==
    \/ NegotiateAnswered(i) \/ PutAnswered(i) \/ CompleteAnswered(i)
    \/ PollAnswered(i) \/ Wakes(i) \/ Throws(i)

-----------------------------------------------------------------------------
(***************************************************************************)
(* refreshImages.                                                          *)
(***************************************************************************)
ClickRefresh ==
    /\ token # "none"
    /\ \E c \in Calls : CallRefresh(c, token)
    /\ UNCHANGED <<sessionVars, uploadVars, list, variantVars>>

\* The call returns, or throws; the upload that awaits it goes on.
RefreshEnds(c, throws) ==
    /\ refresh' = [refresh EXCEPT ![c] = NoCall]
    /\ IF c \notin Ids THEN UNCHANGED <<uploadVars, variantVars>>
       ELSE /\ Leaves(c)
            /\ IF flow[c] = "listToShow" /\ ~throws THEN CallShow(c, c, TRUE)
                                                    ELSE UNCHANGED variantVars
            /\ UNCHANGED <<polled, owner, remembered>>

Renders(c, ids) == list' = ids /\ RefreshEnds(c, FALSE)

\* GET /images is answered with the rows the account had at some moment since it
\* was sent, or fails: then the remembered ids are asked for, one by one.
ListAnswered(c) ==
    /\ refresh[c].at = "list"
    /\ \/ \E ids \in SUBSET Owned(refresh[c].as) : refresh[c].seen \subseteq ids /\ Renders(c, ids)
       \/ remembered[token] = {} /\ Renders(c, {})
       \/ /\ remembered[token] # {}
          /\ refresh' = [refresh EXCEPT ![c] =
                 [at |-> "status", as |-> token, seen |-> {}, todo |-> remembered[token]]]
          /\ UNCHANGED <<uploadVars, list, variantVars>>
    /\ UNCHANGED sessionVars

\* The id asked for is in the list if the answer was 200.
StatusAnswered(c) ==
    /\ refresh[c].at = "status"
    /\ \E i \in refresh[c].todo :
          LET told == IF owner[i] = refresh[c].as THEN {{}, {i}} ELSE {{}}
              todo == refresh[c].todo \ {i}
          IN \E ok \in told :
                IF todo = {} THEN Renders(c, refresh[c].seen \cup ok)
                ELSE /\ refresh' = [refresh EXCEPT ![c] = [at |-> "status", as |-> token,
                                                 seen |-> @.seen \cup ok, todo |-> todo]]
                     /\ UNCHANGED <<uploadVars, list, variantVars>>
    /\ UNCHANGED sessionVars

RefreshThrows(c) ==
    /\ refresh[c] # NoCall
    /\ RefreshEnds(c, TRUE)
    /\ UNCHANGED <<sessionVars, list>>

RefreshHandler(c) == ListAnswered(c) \/ StatusAnswered(c) \/ RefreshThrows(c)

-----------------------------------------------------------------------------
(***************************************************************************)
(* showVariants.                                                           *)
(***************************************************************************)
\* A click on a card of the list, which carries the status it was listed with.
ClickImage(k) ==
    /\ show[k] = NoShow
    /\ \E i \in list, complete \in BOOLEAN : CallShow(k, i, complete)
    /\ UNCHANGED <<sessionVars, uploadVars, listVars>>

\* An image arrives and gets a URL, or a card says that it is not available.
VariantAnswered(k) ==
    LET url  == <<k, show[k].size>>
        next == [show[k] EXCEPT !.as = token, !.size = show[k].size + 1]
    IN /\ show[k] # NoShow
       /\ show' = [show EXCEPT ![k] = IF show[k].size = Sizes THEN NoShow ELSE next]
       /\ \/ /\ owner[show[k].id] = show[k].as
             /\ cards' = cards \cup {url}
             /\ variantURLs' = variantURLs \cup {url}
             /\ live' = live \cup {url}
          \/ UNCHANGED <<cards, variantURLs, live>>
       /\ UNCHANGED <<sessionVars, uploadVars, listVars>>

\* A blob that breaks off ends the loop.
ShowThrows(k) ==
    /\ show[k] # NoShow
    /\ show' = [show EXCEPT ![k] = NoShow]
    /\ UNCHANGED <<cards, variantURLs, live, sessionVars, uploadVars, listVars>>

ShowHandler(k) == VariantAnswered(k) \/ ShowThrows(k)

-----------------------------------------------------------------------------
Next ==
    \/ \E u \in Users : SubmitLogin(u) \/ LoginAnswered(u)
    \/ Logout \/ Boot
    \/ \E i \in Ids : SubmitUpload(i) \/ UploadHandler(i)
    \/ ClickRefresh
    \/ \E c \in Calls \cup Ids : RefreshHandler(c)
    \/ \E k \in Clicks : ClickImage(k)
    \/ \E k \in Clicks \cup Ids : ShowHandler(k)

SafeSpec == Init /\ [][Next]_vars

\* The browser settles every fetch and fires every timeout.
Spec ==
    /\ SafeSpec
    /\ \A i \in Ids : WF_vars(UploadHandler(i)) /\ WF_vars(RefreshHandler(i))

-----------------------------------------------------------------------------
TypeOK ==
    /\ token \in Accounts /\ email \in Accounts /\ whoami \in Accounts
    /\ logins \subseteq Users
    /\ sessions \in 0 .. MaxSessions
    /\ flow \in [Ids -> {"unsent", "negotiate", "put", "complete", "poll", "sleep",
                         "list", "listToShow", "over"}]
    /\ sentAs \in [Ids -> Accounts]
    /\ polled \in [Ids -> Nat] /\ \A i \in Ids : polled[i] <= MaxPolls[i]
    /\ button \in BOOLEAN
    /\ owner \in [Ids -> Accounts]
    /\ remembered \in [Accounts -> SUBSET Ids]
    /\ refresh \in [Calls \cup Ids -> [at : {"none", "list", "status"}, as : Accounts,
                                       seen : SUBSET Ids, todo : SUBSET Ids]]
    /\ list \subseteq Ids
    /\ show \in [Clicks \cup Ids -> [id : {0} \cup Ids, as : Accounts, size : 0 .. Sizes]]
    /\ cards \cup variantURLs \cup live \subseteq (Clicks \cup Ids) \X (1 .. Sizes)

\* However logins, their answers and logouts interleave, the email that is kept,
\* the account in the header and the token that is sent are one account's.
OneIdentity == email = token /\ whoami = token

\* The upload button is disabled as long as an upload is under way, whatever
\* happens to the session meanwhile, so that one upload drives the steps shown.
OneUpload ==
    LET running == {i \in Ids : flow[i] \notin {"unsent", "over"}}
    IN Cardinality(running) <= 1 /\ (button <=> running = {})

\* However the runs of showVariants interleave, an object URL lives exactly as
\* long as a card shows it: none leaks, and no card shows a revoked one.
PreviewsLive == live = cards /\ variantURLs = cards

\* The upload button comes back.
UploadReturns == ~button ~> button

(***************************************************************************)
(* What the page says and the code does not ensure.                        *)
(***************************************************************************)
\* index.html:86, of the list: "Log in as a second account and this list is
\* empty", that is, once nothing is under way it has none of the first
\* account's images.
ListIsOwn ==
    whoami # "none" /\ (\A c \in DOMAIN refresh : refresh[c] = NoCall)
        => list \subseteq Owned(whoami)
=============================================================================
