------------------------------ MODULE Discover ------------------------------
(***************************************************************************)
(* The discover screen of the frontend: a search box whose query is        *)
(* debounced, sent as a server action and mirrored in the page's URL; the  *)
(* results with a follow button on each card; and the sidebar whose state  *)
(* lives in the same URL (discover-search.tsx, store-follow-button.tsx,    *)
(* dashboard-shell.tsx).                                                   *)
(*                                                                         *)
(* What may overlap: a search sent earlier may be answered later, because  *)
(* router.replace discards the server action that is running from Next's   *)
(* queue and the next one starts at once; navigations are transitions      *)
(* that commit after the keystroke; a follow request outlives the card     *)
(* whose button sent it.                                                   *)
(***************************************************************************)
EXTENDS Integers, FiniteSets

CONSTANTS Word,        \* the queries that are not blank
          Blank,       \* a query of white space only
          Shop,        \* the stores
          Hits,        \* what each query finds: [Word -> SUBSET Shop]
          NoOne,       \* no timer
          MaxEdits,    \* keystrokes (these four bound the model)
          MaxClicks,   \* clicks on follow buttons
          MaxToggles,  \* sidebar toggles and changes of the window's width
          MaxFailures  \* searches and follow requests that fail, reloads

ASSUME HitsAssumption == Hits \in [Word -> SUBSET Shop]
ASSUME BlankAssumption == Blank \notin Word /\ NoOne \notin Word
ASSUME DiscoverBounds == {MaxEdits, MaxClicks, MaxToggles, MaxFailures} \subseteq Nat

VARIABLES query,       \* the text in the box
          results,     \* the cards
          loading,
          timer,       \* the debounce timer: the query it will search, or NoOne
          searches,    \* searches sent and not answered
          sent,        \* how many searches were sent
          shown,       \* the number of the search whose answer came last (history)
          lost,        \* the number of the search that threw last (history)
          buttons,     \* [Shop -> the state of the card's follow button]
          requests,    \* follow requests on their way
          follows,     \* the user's follows in the backend
          version,     \* [Shop -> how often a request for it committed] (history)
          address,     \* the page's URL: its parameters q and sidebar
          navigation,  \* the URLs of router.replace calls not committed: {} or one
          dropped,     \* a navigation was dropped since the last keystroke (history)
          window,      \* narrow (useIsMobile), and the drawer shown then
          spent        \* how much of each bound is used

discoverVars == <<query, results, loading, timer, searches, sent, shown, lost, buttons, requests,
                  follows, version, address, navigation, dropped, window, spent>>

Query == Word \cup {Blank}

Use(kind, bound) == spent[kind] < bound /\ spent' = [spent EXCEPT ![kind] = @ + 1]

\* What search() answers now: the matching stores and is_subscribed for each.
\* The error answer and the answer to a blank query have no cards.
NoCards(q, refused) == [of |-> q, stores |-> {}, followed |-> {}, at |-> version, refused |-> refused]
Found(q) == IF q = Blank THEN NoCards(q, FALSE)
            ELSE [NoCards(q, FALSE) EXCEPT !.stores = Hits[q], !.followed = follows \cap Hits[q]]

\* The render: cards stand only under a query that is not blank, once loading ended.
Listed(q, r, l) == IF q = Blank \/ l THEN {} ELSE r.stores

\* A card that appears mounts its button from its result. A card that stays keeps
\* the button's own state whatever the new results say: useState reads its initial
\* value once.
Unmounted == [on |-> FALSE, busy |-> FALSE, knows |-> 0]
Mounted(r, s) == [on |-> s \in r.followed, busy |-> FALSE, knows |-> r.at[s]]
Render(q, r, l) ==
    LET before == Listed(query, results, loading)
        after == Listed(q, r, l)
    IN  /\ query' = q /\ results' = r /\ loading' = l
        /\ buttons' = [s \in Shop |-> IF s \notin after THEN Unmounted
                                      ELSE IF s \in before THEN buttons[s] ELSE Mounted(r, s)]
        \* A request whose button left the screen answers to nobody.
        /\ requests' = {[x EXCEPT !.mine = @ /\ x.shop \in after] : x \in requests}

DiscoverInit ==
    /\ follows = {} /\ version = [s \in Shop |-> 0]
    /\ \E q \in Query : query = q /\ results = Found(q) /\ address = [q |-> q, closed |-> FALSE]
    /\ loading = FALSE /\ timer = NoOne /\ searches = {} /\ sent = 0 /\ shown = 0 /\ lost = 0
    /\ buttons = [s \in Shop |-> Unmounted]
    /\ requests = {} /\ navigation = {} /\ dropped = FALSE
    /\ window \in [narrow : BOOLEAN, drawer : {FALSE}]
    /\ spent = [edits |-> 0, clicks |-> 0, toggles |-> 0, failures |-> 0]

-----------------------------------------------------------------------------
(* The search box. *)

\* Faulty: the debounced function keeps the timer that runs.
FirstType(v) ==
    /\ Use("edits", MaxEdits) /\ v # query
    /\ navigation' = {[address EXCEPT !.q = v]} /\ dropped' = FALSE
    /\ IF v = Blank
       THEN Render(v, NoCards(v, FALSE), FALSE) /\ timer' = timer
       ELSE Render(v, results, TRUE) /\ timer' = IF timer = NoOne THEN v ELSE timer
    /\ UNCHANGED <<searches, sent, shown, lost, follows, version, address, window>>

\* handleChange: a blank query clears the cards but leaves the timer running.
Type(v) ==
    /\ Use("edits", MaxEdits) /\ v # query
    /\ navigation' = {[address EXCEPT !.q = v]} /\ dropped' = FALSE
    /\ IF v = Blank
       THEN Render(v, NoCards(v, FALSE), FALSE) /\ timer' = timer
       ELSE Render(v, results, TRUE) /\ timer' = v
    /\ UNCHANGED <<searches, sent, shown, lost, follows, version, address, window>>

\* The transition of router.replace commits. The page it fetched carries new
\* initial props, which the mounted screen ignores.
CommitNavigation ==
    /\ navigation # {}
    /\ address' \in navigation /\ navigation' = {}
    /\ UNCHANGED <<query, results, loading, timer, searches, sent, shown, lost, buttons, requests,
                   follows, version, dropped, window, spent>>

\* The debounced function runs: searchStores is called.
FireTimer ==
    /\ timer # NoOne
    /\ timer' = NoOne /\ sent' = sent + 1
    /\ searches' = searches \cup {[n |-> sent', q |-> timer, answer |-> {}]}
    /\ UNCHANGED <<query, results, loading, shown, lost, buttons, requests, follows, version,
                   address, navigation, dropped, window, spent>>

\* The backend answers a search, or it answers with an error and the action gives no data.
ServeSearch(x) ==
    /\ x.answer = {}
    /\ \/ searches' = (searches \ {x}) \cup {[x EXCEPT !.answer = {Found(x.q)}]} /\ UNCHANGED spent
       \/ /\ Use("failures", MaxFailures)
          /\ searches' = (searches \ {x}) \cup {[x EXCEPT !.answer = {NoCards(x.q, TRUE)}]}
    /\ UNCHANGED <<query, results, loading, timer, sent, shown, lost, buttons, requests, follows,
                   version, address, navigation, dropped, window>>

\* Faulty: loading ends only when there is something to show.
HopefulAnswerSearch(x) ==
    /\ \E cards \in x.answer : Render(query, cards, cards.stores = {})
    /\ searches' = searches \ {x} /\ shown' = x.n
    /\ UNCHANGED <<timer, sent, lost, follows, version, address, navigation, dropped, window, spent>>

\* setResults(res.data); setLoading(false): whatever the box says by now.
AnswerSearch(x) ==
    /\ \E cards \in x.answer : Render(query, cards, FALSE)
    /\ searches' = searches \ {x} /\ shown' = x.n
    /\ UNCHANGED <<timer, sent, lost, follows, version, address, navigation, dropped, window, spent>>

\* The server action throws (the network, a body the schema rejects): nobody
\* catches it and loading stays as it is.
LoseSearch(x) ==
    /\ Use("failures", MaxFailures)
    /\ searches' = searches \ {x} /\ lost' = x.n
    /\ UNCHANGED <<query, results, loading, timer, sent, shown, buttons, requests, follows, version,
                   address, navigation, dropped, window>>

-----------------------------------------------------------------------------
(* The follow buttons. *)

\* The form action runs with the state of this render; the button is disabled while it is pending.
Click(s) ==
    /\ Use("clicks", MaxClicks)
    /\ s \in Listed(query, results, loading) /\ ~buttons[s].busy
    /\ buttons' = [buttons EXCEPT ![s].busy = TRUE]
    /\ requests' = requests \cup
         {[n |-> spent.clicks, shop |-> s, follow |-> ~buttons[s].on, phase |-> "sent", at |-> 0, mine |-> TRUE]}
    /\ UNCHANGED <<query, results, loading, timer, searches, sent, shown, lost, follows, version,
                   address, navigation, dropped, window>>

\* subscribe inserts unless the row is there, unsubscribe deletes if it is.
CommitRequest(x) ==
    /\ x.phase = "sent"
    /\ follows' = IF x.follow THEN follows \cup {x.shop} ELSE follows \ {x.shop}
    /\ version' = [version EXCEPT ![x.shop] = @ + 1]
    /\ requests' = (requests \ {x}) \cup {[x EXCEPT !.phase = "done", !.at = version'[x.shop]]}
    /\ UNCHANGED <<query, results, loading, timer, searches, sent, shown, lost, buttons, address,
                   navigation, dropped, window, spent>>

\* An error answer: no plan, the limit, no session.
RefuseRequest(x) ==
    /\ x.phase = "sent" /\ Use("failures", MaxFailures)
    /\ requests' = (requests \ {x}) \cup {[x EXCEPT !.phase = "refused"]}
    /\ UNCHANGED <<query, results, loading, timer, searches, sent, shown, lost, buttons, follows,
                   version, address, navigation, dropped, window>>

\* Faulty: the button toggles whatever the answer.
EagerAnswerRequest(x) ==
    /\ x.phase # "sent"
    /\ requests' = requests \ {x}
    /\ buttons' = IF ~x.mine THEN buttons
                  ELSE [buttons EXCEPT ![x.shop] =
                          [on |-> ~@.on, busy |-> FALSE, knows |-> IF x.phase = "done" THEN x.at ELSE @.knows]]
    /\ UNCHANGED <<query, results, loading, timer, searches, sent, shown, lost, follows, version,
                   address, navigation, dropped, window, spent>>

\* The action's state changed: the button toggles if it is a success.
AnswerRequest(x) ==
    /\ x.phase # "sent"
    /\ requests' = requests \ {x}
    /\ buttons' = IF ~x.mine THEN buttons
                  ELSE [buttons EXCEPT ![x.shop] =
                          IF x.phase = "done" THEN [on |-> ~@.on, busy |-> FALSE, knows |-> x.at]
                          ELSE [@ EXCEPT !.busy = FALSE]]
    /\ UNCHANGED <<query, results, loading, timer, searches, sent, shown, lost, follows, version,
                   address, navigation, dropped, window, spent>>

-----------------------------------------------------------------------------
(* The shell. *)

\* handleOpenChange writes the URL from the parameters of the last render: a
\* navigation that has not committed is discarded for it.
WriteSidebarParam ==
    /\ address' = [address EXCEPT !.closed = ~@]
    /\ navigation' = {} /\ dropped' = (dropped \/ navigation # {})

\* toggleSidebar, by the trigger or the keyboard: a narrow window shows a drawer.
ToggleSidebar ==
    /\ Use("toggles", MaxToggles)
    /\ \/ ~window.narrow /\ WriteSidebarParam /\ UNCHANGED window
       \/ /\ window.narrow /\ window' = [window EXCEPT !.drawer = ~@]
          /\ UNCHANGED <<address, navigation, dropped>>
    /\ UNCHANGED <<query, results, loading, timer, searches, sent, shown, lost, buttons, requests,
                   follows, version>>

\* The window crosses the breakpoint.
Resize ==
    /\ Use("toggles", MaxToggles)
    /\ window' = [window EXCEPT !.narrow = ~@]
    /\ UNCHANGED <<query, results, loading, timer, searches, sent, shown, lost, buttons, requests,
                   follows, version, address, navigation, dropped>>

\* The page is loaded again from its URL: by the user, or after a follow action
\* that threw and took the page down. The search of the page itself may fail.
Reload ==
    /\ Use("failures", MaxFailures)
    /\ query' = address.q /\ results' \in {Found(address.q), NoCards(address.q, TRUE)}
    /\ loading' = FALSE /\ timer' = NoOne /\ searches' = {} /\ shown' = sent /\ lost' = 0
    /\ buttons' = [s \in Shop |-> IF s \in results'.stores THEN Mounted(results', s) ELSE Unmounted]
    /\ requests' = {[x EXCEPT !.mine = FALSE] : x \in requests}
    /\ navigation' = {} /\ dropped' = FALSE
    /\ window' = [window EXCEPT !.drawer = FALSE]
    /\ UNCHANGED <<sent, follows, version, address>>

DiscoverNext ==
    \/ \E v \in Query : Type(v)
    \/ CommitNavigation \/ FireTimer \/ ToggleSidebar \/ Resize \/ Reload
    \/ \E x \in searches : ServeSearch(x) \/ AnswerSearch(x) \/ LoseSearch(x)
    \/ \E s \in Shop : Click(s)
    \/ \E x \in requests : CommitRequest(x) \/ RefuseRequest(x) \/ AnswerRequest(x)

\* The timer fires and the backend answers.
SearchProgress == FireTimer \/ \E x \in searches : ServeSearch(x) \/ AnswerSearch(x)

DiscoverSpec == DiscoverInit /\ [][DiscoverNext]_discoverVars /\ WF_discoverVars(SearchProgress)

-----------------------------------------------------------------------------
(* Properties. *)

\* Once nothing is on its way any more, the URL says what the box says, and the
\* cards are those of the query in the box and all of them. Excepted are what the
\* code leaves to happen: the newest search was not the last to be answered
\* (discover-search.tsx:29), it threw, its answer was an error, or the sidebar
\* dropped the navigation (dashboard-shell.tsx:21).
Quiet == timer = NoOne /\ searches = {} /\ navigation = {}
NewestThrew == sent > 0 /\ lost = sent
QuietScreenIsCurrent ==
    Quiet => /\ ~dropped => address.q = query
             /\ query # Blank /\ shown = sent /\ ~NewestThrew =>
                  /\ ~loading /\ results.of = query
                  /\ ~results.refused => results.stores = Hits[query]

\* A follow button that waits for nothing says whether the user follows the store,
\* unless a request it did not hear of committed after what it last knew: the
\* request of a button that is gone (store-follow-button.tsx:20, 27-32).
IdleButtonTellsTheTruth ==
    \A s \in Listed(query, results, loading) :
        ~buttons[s].busy /\ buttons[s].knows = version[s] => (buttons[s].on <=> s \in follows)

\* "Searching…" comes off the screen, unless the newest search threw
\* (discover-search.tsx:28-32 has no catch).
SearchSettles == loading ~> (~loading \/ (NewestThrew /\ timer = NoOne))
=============================================================================
