--------------------------- MODULE Frontend_proofs ---------------------------
(***************************************************************************)
(* What the frontend shows: the follow buttons of the discover screen, for *)
(* any stores, queries and hits and any number of searches and requests    *)
(* that overlap; where the pages' redirects end and why a user pays twice, *)
(* for any number of visits, faults, ends and payments.                    *)
(*                                                                         *)
(* Cards, buttons and answers carry the version of the follow they know.   *)
(* None is ahead of the backend, and one that is not behind it agrees with *)
(* it; a request a button waits for asks for the opposite of what the      *)
(* button shows.                                                           *)
(*                                                                         *)
(* The URL is behind the box only while a navigation is under way; the     *)
(* newest search is of the query in the box, and so are its cards.         *)
(*                                                                         *)
(* Redirects are bounded by what a route may still cost: two for a guest   *)
(* page with a session, one for the dashboard, none for a page that stays, *)
(* one for a page inside without a session. A fault or the end of the      *)
(* session raises the cost by no more than its slack.                      *)
(***************************************************************************)
EXTENDS Discover, Pages, FiniteSetTheorems, TLAPS

-----------------------------------------------------------------------------
(* The discover screen. *)

Cards == [of : Query, stores : SUBSET Shop, followed : SUBSET Shop, at : [Shop -> Nat], refused : BOOLEAN]
Button == [on : BOOLEAN, busy : BOOLEAN, knows : Nat]
Request == [n : Nat, shop : Shop, follow : BOOLEAN, phase : {"sent", "done", "refused"}, at : Nat,
            mine : BOOLEAN]
Search == [n : Nat, q : Word, answer : SUBSET Cards]
Address == [q : Query, closed : BOOLEAN]

\* The screen's state has its types.
DiscoverTypeOK ==
    /\ query \in Query /\ results \in Cards /\ loading \in BOOLEAN
    /\ timer \in Word \cup {NoOne}
    /\ searches \subseteq Search /\ sent \in Nat
    /\ buttons \in [Shop -> Button]
    /\ requests \subseteq Request
    /\ follows \subseteq Shop /\ version \in [Shop -> Nat]
    /\ address \in Address /\ navigation \subseteq Address
    /\ spent \in [edits : Nat, clicks : Nat, toggles : Nat, failures : Nat]

\* What cards say of a store is true unless a later request committed.
Truthful(r) == \A s \in r.stores : /\ r.at[s] <= version[s]
                                   /\ r.at[s] = version[s] => (s \in r.followed <=> s \in follows)
CardsAreTruthful == /\ Truthful(results)
                    /\ \A x \in searches : \A r \in x.answer : Truthful(r)

\* So does the button of a card; while it is busy it keeps what it showed.
ButtonsAreTruthful ==
    \A s \in Listed(query, results, loading) :
        /\ buttons[s].knows <= version[s]
        /\ buttons[s].knows = version[s] => (buttons[s].on <=> s \in follows)

\* A button waits for one request, which asks for the opposite of what it shows.
Awaited(x) == x.mine => /\ x.shop \in Listed(query, results, loading)
                        /\ buttons[x.shop].busy /\ x.follow = ~buttons[x.shop].on
Committed(x) == x.phase = "done" => /\ x.at <= version[x.shop]
                                    /\ x.at = version[x.shop] => (x.follow <=> x.shop \in follows)
RequestsAreAwaited ==
    /\ \A x \in requests : Awaited(x) /\ Committed(x)
    /\ \A x, y \in requests : x.mine /\ y.mine /\ x.shop = y.shop => x = y

ScreenInv == DiscoverTypeOK /\ CardsAreTruthful /\ ButtonsAreTruthful /\ RequestsAreAwaited

-----------------------------------------------------------------------------
(* Answers. *)

LEMMA NoCardsAreTruthful ==
    ASSUME DiscoverTypeOK, NEW q \in Query, NEW b \in BOOLEAN
    PROVE  NoCards(q, b) \in Cards /\ NoCards(q, b).stores = {} /\ Truthful(NoCards(q, b))
<1>1. NoCards(q, b) \in Cards /\ NoCards(q, b).stores = {}
  BY DEF NoCards, Cards, DiscoverTypeOK
<1> QED
  BY <1>1 DEF Truthful

LEMMA FoundIsTruthful ==
    ASSUME DiscoverTypeOK, NEW q \in Query
    PROVE  /\ Found(q) \in Cards /\ Truthful(Found(q))
           /\ q # Blank => Found(q).stores = Hits[q]
<1>1. CASE q = Blank
  BY <1>1, NoCardsAreTruthful DEF Found
<1>2. CASE q # Blank
  <2> DEFINE none == NoCards(q, FALSE)
             found == [none EXCEPT !.stores = Hits[q], !.followed = follows \cap Hits[q]]
  <2>1. none \in Cards /\ none.at = version
    BY NoCardsAreTruthful DEF NoCards
  <2>2. q \in Word /\ Hits[q] \in SUBSET Shop /\ follows \cap Hits[q] \in SUBSET Shop
    BY <1>2, HitsAssumption DEF Query, DiscoverTypeOK
  <2>3. Found(q) = found
    BY <1>2 DEF Found
  <2> HIDE DEF none
  <2>4. /\ found \in Cards /\ found.at = version
        /\ found.stores = Hits[q] /\ found.followed = follows \cap Hits[q]
    BY <2>1, <2>2 DEF Cards
  <2> HIDE DEF found
  <2>5. \A s \in Hits[q] : found.at[s] <= version[s]
    BY <2>2, <2>4 DEF DiscoverTypeOK
  <2> QED
    BY <2>2, <2>3, <2>4, <2>5 DEF Truthful
<1> QED
  BY <1>1, <1>2

LEMMA ListedShops ==
    ASSUME NEW q, NEW r \in Cards, NEW l \in BOOLEAN
    PROVE  Listed(q, r, l) \subseteq r.stores /\ Listed(q, r, l) \subseteq Shop
BY DEF Listed, Cards

LEMMA CountersGrow ==
    ASSUME DiscoverTypeOK, NEW k \in {"edits", "clicks", "toggles", "failures"}, NEW b, Use(k, b)
    PROVE  spent' \in [edits : Nat, clicks : Nat, toggles : Nat, failures : Nat]
<1>1. spent' = [spent EXCEPT ![k] = spent[k] + 1]
  BY DEF Use
<1>2. CASE k = "edits"
  BY <1>1, <1>2 DEF DiscoverTypeOK
<1>3. CASE k = "clicks"
  BY <1>1, <1>3 DEF DiscoverTypeOK
<1>4. CASE k = "toggles"
  BY <1>1, <1>4 DEF DiscoverTypeOK
<1>5. CASE k = "failures"
  BY <1>1, <1>5 DEF DiscoverTypeOK
<1> QED
  BY <1>2, <1>3, <1>4, <1>5

-----------------------------------------------------------------------------
(* Rendering. *)

\* A button is mounted from the card's result.
LEMMA MountedButton ==
    ASSUME NEW r \in Cards, NEW s \in Shop
    PROVE  /\ Unmounted \in Button /\ Mounted(r, s) \in Button
           /\ Mounted(r, s).on <=> s \in r.followed
           /\ Mounted(r, s).knows = r.at[s] /\ ~Mounted(r, s).busy
<1>0. (s \in r.followed) \in BOOLEAN
  OBVIOUS
<1>1. PICK b : b \in BOOLEAN /\ b = (s \in r.followed)
  BY <1>0, Zenon
<1>2. Mounted(r, s) = [on |-> b, busy |-> FALSE, knows |-> r.at[s]]
  BY <1>1 DEF Mounted
<1>3. r.at[s] \in Nat /\ b \in BOOLEAN
  BY <1>1 DEF Cards
<1>4. Mounted(r, s).on = b
  BY <1>2
<1>5. Mounted(r, s) \in Button /\ Mounted(r, s).knows = r.at[s] /\ ~Mounted(r, s).busy
  BY <1>2, <1>3 DEF Button
<1>6. Unmounted \in Button
  BY DEF Unmounted, Button
<1> QED
  BY <1>1, <1>4, <1>5, <1>6

\* A button lets go of its request when its card leaves the screen.
LEMMA LetGo ==
    ASSUME NEW x \in Request, NEW S
    PROVE  LET y == [x EXCEPT !.mine = @ /\ x.shop \in S]
           IN  /\ y \in Request /\ y.shop = x.shop /\ y.follow = x.follow /\ y.phase = x.phase
               /\ y.at = x.at /\ (y.mine <=> x.mine /\ x.shop \in S)
<1>1. (x.mine /\ x.shop \in S) \in BOOLEAN
  BY DEF Request
<1> QED
  BY <1>1 DEF Request

\* Whatever is rendered, with truthful cards, leaves truthful buttons.
LEMMA Rendered ==
    ASSUME ScreenInv, NEW q \in Query, NEW r \in Cards, NEW l \in BOOLEAN, Truthful(r),
           Render(q, r, l), UNCHANGED <<follows, version>>
    PROVE  /\ query' \in Query /\ results' \in Cards /\ loading' \in BOOLEAN
           /\ buttons' \in [Shop -> Button] /\ requests' \subseteq Request
           /\ Truthful(results)' /\ ButtonsAreTruthful' /\ RequestsAreAwaited'
<1> DEFINE after == Listed(q, r, l)
<1>1. PICK before : before = Listed(query, results, loading)
  OBVIOUS
<1>2. /\ query' = q /\ results' = r /\ loading' = l
      /\ buttons' = [s \in Shop |-> IF s \notin after THEN Unmounted
                                    ELSE IF s \in before THEN buttons[s] ELSE Mounted(r, s)]
      /\ requests' = {[x EXCEPT !.mine = @ /\ x.shop \in after] : x \in requests}
  BY <1>1 DEF Render
<1>3. after \subseteq r.stores /\ after \subseteq Shop
  BY ListedShops
<1>4. Listed(query, results, loading)' = after
  BY <1>2
<1> HIDE DEF after
<1>5. \A s \in Shop : Unmounted \in Button /\ Mounted(r, s) \in Button
                      /\ (Mounted(r, s).on <=> s \in r.followed) /\ Mounted(r, s).knows = r.at[s]
  BY MountedButton
<1>6. buttons' \in [Shop -> Button]
  BY <1>2, <1>5 DEF ScreenInv, DiscoverTypeOK
<1>7. ASSUME NEW s \in after
      PROVE  /\ buttons'[s].knows <= version[s]
             /\ buttons'[s].knows = version[s] => (buttons'[s].on <=> s \in follows)
  <2>1. CASE s \in before
    BY <1>1, <1>2, <1>3, <1>7, <2>1 DEF ScreenInv, ButtonsAreTruthful
  <2>2. CASE s \notin before
    BY <1>2, <1>3, <1>5, <1>7, <2>2 DEF Truthful
  <2> QED
    BY <2>1, <2>2
<1>8. ButtonsAreTruthful'
  BY <1>4, <1>7 DEF ButtonsAreTruthful
<1>9. ASSUME NEW y \in requests'
      PROVE  \E x \in requests :
               /\ y = [x EXCEPT !.mine = @ /\ x.shop \in after]
               /\ y \in Request /\ y.shop = x.shop /\ y.follow = x.follow /\ y.phase = x.phase
               /\ y.at = x.at /\ (y.mine <=> x.mine /\ x.shop \in after)
  <2>1. PICK x \in requests : y = [x EXCEPT !.mine = @ /\ x.shop \in after]
    BY <1>2
  <2>2. x \in Request
    BY DEF ScreenInv, DiscoverTypeOK
  <2> QED
    BY <2>1, <2>2, LetGo
<1>10. ASSUME NEW y \in requests' PROVE Awaited(y)' /\ Committed(y)'
  <2>1. PICK x \in requests :
          /\ y.shop = x.shop /\ y.follow = x.follow /\ y.phase = x.phase
          /\ y.at = x.at /\ (y.mine <=> x.mine /\ x.shop \in after)
    BY <1>9
  <2>2. Awaited(x) /\ Committed(x)
    BY DEF ScreenInv, RequestsAreAwaited
  <2>3. Committed(y)'
    BY <2>1, <2>2 DEF Committed
  <2>4. y.mine => buttons'[y.shop] = buttons[y.shop]
    BY <1>1, <1>2, <1>3, <2>1, <2>2 DEF Awaited
  <2>5. Awaited(y)'
    BY <1>4, <2>1, <2>2, <2>4 DEF Awaited
  <2> QED
    BY <2>3, <2>5
<1>11. ASSUME NEW y \in requests', NEW z \in requests', y.mine, z.mine, y.shop = z.shop PROVE y = z
  BY <1>9, <1>11 DEF ScreenInv, RequestsAreAwaited
<1>12. RequestsAreAwaited'
  BY <1>10, <1>11 DEF RequestsAreAwaited
<1>13. Truthful(results)'
  BY <1>2 DEF Truthful
<1> QED
  BY <1>2, <1>6, <1>8, <1>9, <1>12, <1>13

\* A step that leaves the cards, the buttons and the backend alone.
LEMMA ScreenKept ==
    ASSUME ScreenInv, DiscoverTypeOK',
           UNCHANGED <<query, results, loading, buttons, requests, follows, version>>,
           \A x \in searches' : \A r \in x.answer : Truthful(r)
    PROVE  ScreenInv'
BY DEF ScreenInv, CardsAreTruthful, Truthful, ButtonsAreTruthful, RequestsAreAwaited, Awaited, Committed

\* Cards stay truthful while the backend does not change.
LEMMA TruthfulStays ==
    ASSUME UNCHANGED <<follows, version>>, NEW r, Truthful(r)
    PROVE  Truthful(r)'
BY DEF Truthful

LEMMA TypeStep ==
    ASSUME ScreenInv, NEW v \in Query, Type(v)
    PROVE  ScreenInv'
<1> DEFINE to == [address EXCEPT !.q = v]
<1>1. /\ navigation' = {to} /\ address' = address
      /\ UNCHANGED <<searches, sent, follows, version>>
      /\ spent' \in [edits : Nat, clicks : Nat, toggles : Nat, failures : Nat]
  BY CountersGrow DEF Type, ScreenInv
<1>2. to \in Address
  BY DEF ScreenInv, DiscoverTypeOK, Address
<1> HIDE DEF to
<1>3. timer' \in Word \cup {NoOne}
  BY DEF Type, ScreenInv, DiscoverTypeOK, Query
<1>4. /\ query' \in Query /\ results' \in Cards /\ loading' \in BOOLEAN
      /\ buttons' \in [Shop -> Button] /\ requests' \subseteq Request
      /\ Truthful(results)' /\ ButtonsAreTruthful' /\ RequestsAreAwaited'
  <2>1. CASE v = Blank
    <3>1. Render(v, NoCards(v, FALSE), FALSE)
      BY <2>1 DEF Type
    <3>2. NoCards(v, FALSE) \in Cards /\ Truthful(NoCards(v, FALSE))
      BY NoCardsAreTruthful DEF ScreenInv
    <3> QED
      BY <1>1, <3>1, <3>2, Rendered
  <2>2. CASE v # Blank
    <3>1. Render(v, results, TRUE)
      BY <2>2 DEF Type
    <3>2. results \in Cards /\ Truthful(results)
      BY DEF ScreenInv, DiscoverTypeOK, CardsAreTruthful
    <3> QED
      BY <1>1, <3>1, <3>2, Rendered
  <2> QED
    BY <2>1, <2>2
<1>5. DiscoverTypeOK'
  BY <1>1, <1>2, <1>3, <1>4 DEF ScreenInv, DiscoverTypeOK
<1>6. CardsAreTruthful'
  BY <1>1, <1>4, TruthfulStays DEF ScreenInv, CardsAreTruthful
<1> QED
  BY <1>4, <1>5, <1>6 DEF ScreenInv

LEMMA FireTimerStep == ScreenInv /\ FireTimer => ScreenInv'
<1> SUFFICES ASSUME ScreenInv, FireTimer PROVE ScreenInv'
  OBVIOUS
<1> DEFINE asked == [n |-> sent + 1, q |-> timer, answer |-> {}]
<1>1. asked \in Search /\ asked.answer = {}
  <2>1. timer \in Word /\ sent + 1 \in Nat
    BY DEF FireTimer, ScreenInv, DiscoverTypeOK
  <2> QED
    BY <2>1 DEF Search
<1>2. /\ searches' = searches \cup {asked} /\ sent' = sent + 1 /\ timer' = NoOne
      /\ UNCHANGED <<query, results, loading, buttons, requests, follows, version, address, navigation, spent>>
  BY DEF FireTimer
<1> HIDE DEF asked
<1>3. DiscoverTypeOK'
  BY <1>1, <1>2 DEF ScreenInv, DiscoverTypeOK
<1>4. \A x \in searches' : \A r \in x.answer : Truthful(r)
  BY <1>1, <1>2 DEF ScreenInv, CardsAreTruthful
<1> QED
  BY <1>2, <1>3, <1>4, ScreenKept

LEMMA ServeSearchStep ==
    ASSUME ScreenInv, NEW x \in searches, ServeSearch(x)
    PROVE  ScreenInv'
<1>1. PICK r : /\ r \in Cards /\ Truthful(r)
               /\ searches' = (searches \ {x}) \cup {[x EXCEPT !.answer = {r}]}
  <2>1. x.q \in Query
    BY DEF ScreenInv, DiscoverTypeOK, Search, Query
  <2> QED
    BY <2>1, FoundIsTruthful, NoCardsAreTruthful DEF ServeSearch, ScreenInv
<1>2. [x EXCEPT !.answer = {r}] \in Search /\ [x EXCEPT !.answer = {r}].answer = {r}
  BY <1>1 DEF ScreenInv, DiscoverTypeOK, Search
<1>3. spent' \in [edits : Nat, clicks : Nat, toggles : Nat, failures : Nat]
  BY CountersGrow DEF ServeSearch, ScreenInv, DiscoverTypeOK
<1>4. UNCHANGED <<query, results, loading, timer, sent, buttons, requests, follows, version, address, navigation>>
  BY DEF ServeSearch
<1>5. DiscoverTypeOK'
  BY <1>1, <1>2, <1>3, <1>4 DEF ScreenInv, DiscoverTypeOK
<1>6. \A y \in searches' : \A c \in y.answer : Truthful(c)
  BY <1>1, <1>2 DEF ScreenInv, CardsAreTruthful
<1> QED
  BY <1>4, <1>5, <1>6, ScreenKept

LEMMA AnswerSearchStep ==
    ASSUME ScreenInv, NEW x \in searches, AnswerSearch(x)
    PROVE  ScreenInv'
<1>1. PICK r \in x.answer : Render(query, r, FALSE)
  BY DEF AnswerSearch
<1>2. r \in Cards /\ Truthful(r) /\ query \in Query
  BY DEF ScreenInv, DiscoverTypeOK, Search, CardsAreTruthful
<1>3. searches' = searches \ {x} /\ UNCHANGED <<timer, sent, follows, version, address, navigation, spent>>
  BY DEF AnswerSearch
<1>4. /\ query' \in Query /\ results' \in Cards /\ loading' \in BOOLEAN
      /\ buttons' \in [Shop -> Button] /\ requests' \subseteq Request
      /\ Truthful(results)' /\ ButtonsAreTruthful' /\ RequestsAreAwaited'
  BY <1>1, <1>2, <1>3, Rendered
<1>5. DiscoverTypeOK'
  BY <1>3, <1>4 DEF ScreenInv, DiscoverTypeOK
<1>6. CardsAreTruthful'
  BY <1>3, <1>4, TruthfulStays DEF ScreenInv, CardsAreTruthful
<1> QED
  BY <1>4, <1>5, <1>6 DEF ScreenInv

-----------------------------------------------------------------------------
(* Follow requests. *)

LEMMA ClickStep ==
    ASSUME ScreenInv, NEW s \in Shop, Click(s)
    PROVE  ScreenInv'
<1> DEFINE x == [n |-> spent.clicks, shop |-> s, follow |-> ~buttons[s].on, phase |-> "sent", at |-> 0,
                 mine |-> TRUE]
           b == [buttons[s] EXCEPT !.busy = TRUE]
<1>1. /\ s \in Listed(query, results, loading) /\ ~buttons[s].busy
      /\ buttons' = [buttons EXCEPT ![s] = b] /\ requests' = requests \cup {x}
      /\ UNCHANGED <<query, results, loading, timer, searches, sent, follows, version, address, navigation>>
      /\ spent' \in [edits : Nat, clicks : Nat, toggles : Nat, failures : Nat]
  BY CountersGrow DEF Click, ScreenInv
<1>2. buttons[s] \in Button
  BY DEF ScreenInv, DiscoverTypeOK
<1>3. b \in Button /\ b.on = buttons[s].on /\ b.knows = buttons[s].knows /\ b.busy
  BY <1>2 DEF Button
<1>4. x \in Request /\ x.shop = s /\ (x.follow = ~b.on) /\ x.phase = "sent" /\ x.mine
  <2>1. (~buttons[s].on) \in BOOLEAN /\ spent.clicks \in Nat
    BY <1>2 DEF Button, ScreenInv, DiscoverTypeOK
  <2> QED
    BY <1>3, <2>1 DEF Request
<1> HIDE DEF x, b
<1>5. DiscoverTypeOK'
  BY <1>1, <1>3, <1>4 DEF ScreenInv, DiscoverTypeOK
<1>6. \A t \in Shop : buttons'[t] = IF t = s THEN b ELSE buttons[t]
  BY <1>1 DEF ScreenInv, DiscoverTypeOK
<1>7. Listed(query, results, loading) \subseteq Shop
  BY ListedShops DEF ScreenInv, DiscoverTypeOK
<1>8. ButtonsAreTruthful'
  BY <1>1, <1>3, <1>6, <1>7 DEF ScreenInv, ButtonsAreTruthful
<1>9. \A y \in requests : y.mine => y.shop # s /\ y.shop \in Shop
  BY <1>1 DEF ScreenInv, RequestsAreAwaited, Awaited, DiscoverTypeOK, Request
<1>10. ASSUME NEW y \in requests' PROVE Awaited(y)' /\ Committed(y)'
  <2>1. CASE y = x
    BY <1>1, <1>3, <1>4, <1>6, <2>1 DEF Awaited, Committed
  <2>2. CASE y # x
    <3>1. Awaited(y) /\ Committed(y) /\ y \in requests
      BY <1>1, <2>2 DEF ScreenInv, RequestsAreAwaited
    <3> QED
      BY <1>1, <1>6, <1>9, <3>1 DEF Awaited, Committed
  <2> QED
    BY <2>1, <2>2
<1>11. RequestsAreAwaited'
  BY <1>1, <1>4, <1>9, <1>10 DEF ScreenInv, RequestsAreAwaited
<1>12. CardsAreTruthful'
  BY <1>1, TruthfulStays DEF ScreenInv, CardsAreTruthful, Truthful
<1> QED
  BY <1>5, <1>8, <1>11, <1>12 DEF ScreenInv

LEMMA CommitRequestStep ==
    ASSUME ScreenInv, NEW x \in requests, CommitRequest(x)
    PROVE  ScreenInv'
<1> DEFINE y == [x EXCEPT !.phase = "done", !.at = version[x.shop] + 1]
<1>0. x \in Request /\ x.shop \in Shop /\ version[x.shop] \in Nat
  BY DEF ScreenInv, DiscoverTypeOK, Request
<1>1. PICK s \in Shop, n \in Nat : s = x.shop /\ n = version[s] + 1
  BY <1>0
<1>2. version' = [version EXCEPT ![s] = n] /\ version' \in [Shop -> Nat]
      /\ \A t \in Shop : version'[t] = IF t = s THEN n ELSE version[t]
  BY <1>1 DEF CommitRequest, ScreenInv, DiscoverTypeOK
<1>3. /\ y \in Request /\ y.shop = s /\ y.follow = x.follow /\ y.phase = "done" /\ y.at = n /\ y.mine = x.mine
  BY <1>0, <1>1 DEF Request
<1>4. requests' = (requests \ {x}) \cup {y}
      /\ UNCHANGED <<query, results, loading, timer, searches, sent, buttons, address, navigation, spent>>
  BY <1>1, <1>2 DEF CommitRequest
<1> HIDE DEF y
<1>5. follows' \subseteq Shop /\ (s \in follows' <=> x.follow)
      /\ \A t \in Shop : t # s => (t \in follows' <=> t \in follows)
  BY <1>0, <1>1 DEF CommitRequest, ScreenInv, DiscoverTypeOK
<1>6. DiscoverTypeOK'
  BY <1>2, <1>3, <1>4, <1>5 DEF ScreenInv, DiscoverTypeOK
<1>7. ASSUME NEW r \in Cards, Truthful(r) PROVE Truthful(r)'
  <2> SUFFICES ASSUME NEW t \in r.stores
               PROVE  /\ r.at[t] <= version'[t]
                      /\ r.at[t] = version'[t] => (t \in r.followed <=> t \in follows')
    BY DEF Truthful
  <2>1. t \in Shop /\ r.at[t] \in Nat /\ r.at[t] <= version[t] /\ version[t] \in Nat
    BY <1>7 DEF Cards, Truthful, ScreenInv, DiscoverTypeOK
  <2>2. CASE t = s
    BY <1>1, <1>2, <2>1, <2>2
  <2>3. CASE t # s
    BY <1>2, <1>5, <1>7, <2>1, <2>3 DEF Truthful
  <2> QED
    BY <2>2, <2>3
<1>8. CardsAreTruthful'
  <2>1. results \in Cards /\ \A z \in searches : z.answer \subseteq Cards
    BY DEF ScreenInv, DiscoverTypeOK, Search
  <2>2. Truthful(results)'
    BY <1>4, <1>7, <2>1 DEF ScreenInv, CardsAreTruthful, Truthful
  <2> QED
    BY <1>4, <1>7, <2>1, <2>2 DEF ScreenInv, CardsAreTruthful
<1>9. Listed(query, results, loading) \subseteq Shop
  BY ListedShops DEF ScreenInv, DiscoverTypeOK
<1>10. ButtonsAreTruthful'
  <2> SUFFICES ASSUME NEW t \in Listed(query, results, loading)
               PROVE  /\ buttons[t].knows <= version'[t]
                      /\ buttons[t].knows = version'[t] => (buttons[t].on <=> t \in follows')
    BY <1>4 DEF ButtonsAreTruthful
  <2>1. t \in Shop /\ buttons[t].knows \in Nat /\ buttons[t].knows <= version[t] /\ version[t] \in Nat
    BY <1>9 DEF Button, ScreenInv, ButtonsAreTruthful, DiscoverTypeOK
  <2>2. CASE t = s
    BY <1>1, <1>2, <2>1, <2>2
  <2>3. CASE t # s
    BY <1>2, <1>5, <2>1, <2>3 DEF ScreenInv, ButtonsAreTruthful
  <2> QED
    BY <2>2, <2>3
<1>11. ASSUME NEW z \in requests' PROVE Awaited(z)' /\ Committed(z)'
  <2>1. Awaited(x)
    BY DEF ScreenInv, RequestsAreAwaited
  <2>2. CASE z = y
    BY <1>1, <1>2, <1>3, <1>4, <1>5, <2>1, <2>2 DEF Awaited, Committed
  <2>3. CASE z # y
    <3>1. Awaited(z) /\ Committed(z) /\ z \in Request
      BY <1>4, <2>3 DEF ScreenInv, RequestsAreAwaited, DiscoverTypeOK
    <3>2. z.shop \in Shop /\ z.at \in Nat /\ version[z.shop] \in Nat
      BY <3>1 DEF Request, ScreenInv, DiscoverTypeOK
    <3>3. CASE z.shop = s
      BY <1>1, <1>2, <1>4, <3>1, <3>2, <3>3 DEF Awaited, Committed
    <3>4. CASE z.shop # s
      BY <1>2, <1>4, <1>5, <3>1, <3>2, <3>4 DEF Awaited, Committed
    <3> QED
      BY <3>3, <3>4
  <2> QED
    BY <2>2, <2>3
<1>12. \A z \in requests : z.mine /\ x.mine /\ z.shop = s => z = x
  BY <1>1 DEF ScreenInv, RequestsAreAwaited
<1>13. RequestsAreAwaited'
  BY <1>3, <1>4, <1>11, <1>12 DEF ScreenInv, RequestsAreAwaited
<1> QED
  BY <1>6, <1>8, <1>10, <1>13 DEF ScreenInv

LEMMA RefuseRequestStep ==
    ASSUME ScreenInv, NEW x \in requests, RefuseRequest(x)
    PROVE  ScreenInv'
<1> DEFINE y == [x EXCEPT !.phase = "refused"]
<1>1. /\ requests' = (requests \ {x}) \cup {y}
      /\ UNCHANGED <<query, results, loading, timer, searches, sent, buttons, follows, version, address, navigation>>
      /\ spent' \in [edits : Nat, clicks : Nat, toggles : Nat, failures : Nat]
  BY CountersGrow DEF RefuseRequest, ScreenInv
<1>2. y \in Request /\ y.shop = x.shop /\ y.follow = x.follow /\ y.phase = "refused" /\ y.mine = x.mine
  BY DEF ScreenInv, DiscoverTypeOK, Request
<1> HIDE DEF y
<1>3. DiscoverTypeOK'
  BY <1>1, <1>2 DEF ScreenInv, DiscoverTypeOK
<1>4. CardsAreTruthful' /\ ButtonsAreTruthful'
  BY <1>1, TruthfulStays DEF ScreenInv, CardsAreTruthful, ButtonsAreTruthful, Truthful
<1>5. RequestsAreAwaited'
  BY <1>1, <1>2 DEF ScreenInv, RequestsAreAwaited, Awaited, Committed
<1> QED
  BY <1>3, <1>4, <1>5 DEF ScreenInv

LEMMA AnswerRequestStep ==
    ASSUME ScreenInv, NEW x \in requests, AnswerRequest(x)
    PROVE  ScreenInv'
<1>1. /\ requests' = requests \ {x}
      /\ UNCHANGED <<query, results, loading, timer, searches, sent, follows, version, address, navigation, spent>>
  BY DEF AnswerRequest
<1>2. x \in Request /\ Awaited(x) /\ Committed(x) /\ x.phase # "sent"
  BY DEF AnswerRequest, ScreenInv, DiscoverTypeOK, RequestsAreAwaited
<1>3. PICK s \in Shop : s = x.shop
  BY <1>2 DEF Request
<1>4. CASE ~x.mine
  <2>1. buttons' = buttons
    BY <1>4 DEF AnswerRequest
  <2>2. DiscoverTypeOK'
    BY <1>1, <2>1 DEF ScreenInv, DiscoverTypeOK
  <2> QED
    BY <1>1, <2>1, <2>2 DEF ScreenInv, CardsAreTruthful, Truthful, ButtonsAreTruthful, RequestsAreAwaited,
                            Awaited, Committed
<1>5. CASE x.mine
  <2> DEFINE b == IF x.phase = "done" THEN [on |-> ~buttons[s].on, busy |-> FALSE, knows |-> x.at]
                  ELSE [buttons[s] EXCEPT !.busy = FALSE]
  <2>1. buttons' = [buttons EXCEPT ![s] = b]
    BY <1>3, <1>5 DEF AnswerRequest
  <2>2. buttons[s] \in Button
    BY DEF ScreenInv, DiscoverTypeOK
  <2>3. s \in Listed(query, results, loading) /\ x.follow = ~buttons[s].on
    BY <1>2, <1>3, <1>5 DEF Awaited
  <2>4. b \in Button
    BY <1>2, <2>2 DEF Button, Request
  <2>5. /\ b.knows <= version[s]
        /\ b.knows = version[s] => (b.on <=> s \in follows)
    <3>1. CASE x.phase = "done"
      BY <1>2, <1>3, <2>2, <2>3, <3>1 DEF Committed, Button
    <3>2. CASE x.phase # "done"
      <4>1. b.on = buttons[s].on /\ b.knows = buttons[s].knows
        BY <2>2, <3>2 DEF Button
      <4> QED
        BY <2>3, <4>1 DEF ScreenInv, ButtonsAreTruthful
    <3> QED
      BY <3>1, <3>2
  <2> HIDE DEF b
  <2>6. \A t \in Shop : buttons'[t] = IF t = s THEN b ELSE buttons[t]
    BY <2>1 DEF ScreenInv, DiscoverTypeOK
  <2>7. DiscoverTypeOK'
    BY <1>1, <2>1, <2>4 DEF ScreenInv, DiscoverTypeOK
  <2>8. Listed(query, results, loading) \subseteq Shop
    BY ListedShops DEF ScreenInv, DiscoverTypeOK
  <2>9. ButtonsAreTruthful'
    BY <1>1, <2>5, <2>6, <2>8 DEF ScreenInv, ButtonsAreTruthful
  <2>10. \A y \in requests' : y.mine => y.shop # s /\ y.shop \in Shop
    BY <1>1, <1>3, <1>5 DEF ScreenInv, RequestsAreAwaited, DiscoverTypeOK, Request
  <2>11. RequestsAreAwaited'
    BY <1>1, <2>6, <2>10 DEF ScreenInv, RequestsAreAwaited, Awaited, Committed
  <2>12. CardsAreTruthful'
    BY <1>1, TruthfulStays DEF ScreenInv, CardsAreTruthful, Truthful
  <2> QED
    BY <2>7, <2>9, <2>11, <2>12 DEF ScreenInv
<1> QED
  BY <1>4, <1>5

-----------------------------------------------------------------------------
(* The shell, and the whole. *)

LEMMA ShellStep ==
    ASSUME ScreenInv, CommitNavigation \/ ToggleSidebar \/ Resize
    PROVE  ScreenInv'
<1>1. /\ UNCHANGED <<query, results, loading, timer, searches, sent, buttons, requests, follows, version>>
      /\ spent' \in [edits : Nat, clicks : Nat, toggles : Nat, failures : Nat]
  BY CountersGrow DEF CommitNavigation, ToggleSidebar, Resize, ScreenInv, DiscoverTypeOK
<1>2. address' \in Address /\ navigation' \subseteq Address
  <2>1. CASE CommitNavigation \/ Resize
    BY <2>1 DEF CommitNavigation, Resize, ScreenInv, DiscoverTypeOK
  <2>2. CASE ToggleSidebar
    <3>1. (~address.closed) \in BOOLEAN
      BY DEF ScreenInv, DiscoverTypeOK, Address
    <3>2. [address EXCEPT !.closed = ~@] \in Address
      BY <3>1 DEF ScreenInv, DiscoverTypeOK, Address
    <3> QED
      BY <2>2, <3>2 DEF ToggleSidebar, WriteSidebarParam, ScreenInv, DiscoverTypeOK
  <2> QED
    BY <2>1, <2>2
<1>3. DiscoverTypeOK'
  BY <1>1, <1>2 DEF ScreenInv, DiscoverTypeOK
<1> QED
  BY <1>1, <1>3, ScreenKept DEF ScreenInv, CardsAreTruthful

LEMMA ReloadStep == ScreenInv /\ Reload => ScreenInv'
<1> SUFFICES ASSUME ScreenInv, Reload PROVE ScreenInv'
  OBVIOUS
<1>1. PICK r : r \in {Found(address.q), NoCards(address.q, TRUE)} /\ results' = r
  BY DEF Reload
<1>2. address.q \in Query
  BY DEF ScreenInv, DiscoverTypeOK, Address
<1>3. r \in Cards /\ Truthful(r)
  BY <1>1, <1>2, FoundIsTruthful, NoCardsAreTruthful DEF ScreenInv
<1>4. /\ query' = address.q /\ loading' = FALSE /\ timer' = NoOne /\ searches' = {}
      /\ buttons' = [s \in Shop |-> IF s \in r.stores THEN Mounted(r, s) ELSE Unmounted]
      /\ requests' = {[x EXCEPT !.mine = FALSE] : x \in requests}
      /\ navigation' = {} /\ UNCHANGED <<sent, follows, version, address>>
      /\ spent' \in [edits : Nat, clicks : Nat, toggles : Nat, failures : Nat]
  BY <1>1, CountersGrow DEF Reload, ScreenInv
<1>5. buttons' \in [Shop -> Button]
  BY <1>3, <1>4, MountedButton
<1>6. ASSUME NEW y \in requests'
      PROVE  \E x \in requests : /\ y \in Request /\ ~y.mine /\ y.shop = x.shop
                                 /\ y.follow = x.follow /\ y.phase = x.phase /\ y.at = x.at
  <2>1. PICK x \in requests : y = [x EXCEPT !.mine = FALSE]
    BY <1>4
  <2> QED
    BY <2>1 DEF ScreenInv, DiscoverTypeOK, Request
<1>7. DiscoverTypeOK'
  BY <1>1, <1>2, <1>3, <1>4, <1>5, <1>6 DEF ScreenInv, DiscoverTypeOK
<1>8. CardsAreTruthful'
  BY <1>1, <1>3, <1>4 DEF CardsAreTruthful, Truthful
<1>9. ButtonsAreTruthful'
  <2>1. Listed(query, results, loading)' \subseteq r.stores /\ r.stores \subseteq Shop
    BY <1>1, <1>3, <1>4 DEF Listed, Cards
  <2>2. ASSUME NEW s \in r.stores
        PROVE  /\ buttons'[s].knows <= version'[s]
               /\ buttons'[s].knows = version'[s] => (buttons'[s].on <=> s \in follows')
    <3>1. s \in Shop /\ buttons'[s] = Mounted(r, s)
      BY <1>4, <2>1
    <3> QED
      BY <1>3, <1>4, <3>1, MountedButton DEF Truthful
  <2> QED
    BY <2>1, <2>2 DEF ButtonsAreTruthful
<1>10. RequestsAreAwaited'
  <2>1. ASSUME NEW y \in requests' PROVE Awaited(y)' /\ Committed(y)' /\ ~y.mine
    <3>1. PICK x \in requests : /\ ~y.mine /\ y.shop = x.shop
                                /\ y.follow = x.follow /\ y.phase = x.phase /\ y.at = x.at
      BY <1>6
    <3>2. Committed(x)
      BY DEF ScreenInv, RequestsAreAwaited
    <3> QED
      BY <1>4, <3>1, <3>2 DEF Awaited, Committed
  <2> QED
    BY <2>1 DEF RequestsAreAwaited
<1> QED
  BY <1>7, <1>8, <1>9, <1>10 DEF ScreenInv

LEMMA ScreenStep == ScreenInv /\ [DiscoverNext]_discoverVars => ScreenInv'
<1> SUFFICES ASSUME ScreenInv, [DiscoverNext]_discoverVars PROVE ScreenInv'
  OBVIOUS
<1>1. CASE UNCHANGED discoverVars
  <2>1. DiscoverTypeOK'
    BY <1>1 DEF discoverVars, ScreenInv, DiscoverTypeOK
  <2> QED
    BY <1>1, <2>1, ScreenKept DEF discoverVars, ScreenInv, CardsAreTruthful
<1>2. ASSUME NEW v \in Query, Type(v) PROVE ScreenInv'
  BY <1>2, TypeStep
<1>3. ASSUME NEW x \in searches, LoseSearch(x) PROVE ScreenInv'
  <2>1. /\ UNCHANGED <<query, results, loading, timer, sent, buttons, requests, follows, version, address, navigation>>
        /\ searches' \subseteq searches
        /\ spent' \in [edits : Nat, clicks : Nat, toggles : Nat, failures : Nat]
    BY <1>3, CountersGrow DEF LoseSearch, ScreenInv
  <2>2. DiscoverTypeOK'
    BY <2>1 DEF ScreenInv, DiscoverTypeOK
  <2> QED
    BY <2>1, <2>2, ScreenKept DEF ScreenInv, CardsAreTruthful
<1> QED
  BY <1>1, <1>2, <1>3, FireTimerStep, ServeSearchStep, AnswerSearchStep, ClickStep, CommitRequestStep,
     RefuseRequestStep, AnswerRequestStep, ShellStep, ReloadStep DEF DiscoverNext

LEMMA ScreenInit == DiscoverInit => ScreenInv
<1> SUFFICES ASSUME DiscoverInit PROVE ScreenInv
  OBVIOUS
<1>1. PICK q \in Query : query = q /\ results = Found(q) /\ address = [q |-> q, closed |-> FALSE]
  BY DEF DiscoverInit
<1>2. /\ follows = {} /\ version = [s \in Shop |-> 0] /\ loading = FALSE /\ timer = NoOne
      /\ searches = {} /\ sent = 0 /\ buttons = [s \in Shop |-> Unmounted] /\ requests = {} /\ navigation = {}
      /\ spent = [edits |-> 0, clicks |-> 0, toggles |-> 0, failures |-> 0]
  BY DEF DiscoverInit
<1>3. Unmounted \in Button /\ ~Unmounted.on /\ Unmounted.knows = 0
  BY DEF Unmounted, Button
<1>4. NoCards(q, FALSE) \in Cards
  BY <1>2 DEF NoCards, Cards
<1>5. results \in Cards /\ results.at = version /\ results.followed = {}
  <2>1. NoCards(q, FALSE).at = version /\ NoCards(q, FALSE).followed = {}
    BY DEF NoCards
  <2>2. CASE q = Blank
    BY <1>1, <1>4, <2>1, <2>2 DEF Found
  <2>3. CASE q # Blank
    <3>1. Hits[q] \in SUBSET Shop
      BY <2>3, HitsAssumption DEF Query
    <3>2. PICK c \in Cards : c = NoCards(q, FALSE)
      BY <1>4
    <3>3. results = [c EXCEPT !.stores = Hits[q], !.followed = {}]
      BY <1>1, <1>2, <2>3, <3>2 DEF Found
    <3> QED
      BY <2>1, <3>1, <3>2, <3>3 DEF Cards
  <2> QED
    BY <2>2, <2>3
<1>6. DiscoverTypeOK
  <2>1. address \in Address
    BY <1>1 DEF Address
  <2>2. version \in [Shop -> Nat] /\ buttons \in [Shop -> Button]
    BY <1>2, <1>3
  <2>3. spent \in [edits : Nat, clicks : Nat, toggles : Nat, failures : Nat]
    BY <1>2
  <2> QED
    BY <1>1, <1>2, <1>5, <2>1, <2>2, <2>3 DEF DiscoverTypeOK
<1>7. results.stores \subseteq Shop /\ Listed(query, results, loading) \subseteq Shop
  BY <1>2, <1>5, ListedShops DEF Cards
<1>8. CardsAreTruthful
  BY <1>2, <1>5, <1>7 DEF CardsAreTruthful, Truthful
<1>9. ButtonsAreTruthful
  BY <1>2, <1>3, <1>7 DEF ButtonsAreTruthful
<1> QED
  BY <1>2, <1>6, <1>8, <1>9 DEF ScreenInv, RequestsAreAwaited

\* However searches and follow requests overlap, an idle follow button says
\* whether the user follows the store, unless a request of a button that is gone
\* committed after what it last knew (store-follow-button.tsx:20, 27-32).
THEOREM IdleButtonsTellTheTruth == DiscoverSpec => []IdleButtonTellsTheTruth
<1>1. ScreenInv => IdleButtonTellsTheTruth
  BY DEF ScreenInv, ButtonsAreTruthful, IdleButtonTellsTheTruth
<1> QED
  BY <1>1, ScreenInit, ScreenStep, PTL DEF DiscoverSpec

-----------------------------------------------------------------------------
(* The quiet screen. The newest search is on its way, was lost or has been *)
(* answered; as long as the timer does not run it is a search for what the *)
(* box says. A navigation goes where the box says unless it was dropped.   *)

Answers(r, q) == r.of = q /\ (~r.refused => r.stores = Hits[q])

Heads == \A a \in navigation : a.q = query
AddressFollows == ~dropped => Heads /\ (navigation = {} => address.q = query)

\* The searches' numbers tell them apart, and from those answered or lost.
SearchesAreNumbered ==
    /\ shown \in Nat /\ lost \in Nat /\ shown <= sent /\ lost <= sent
    /\ NewestThrew => shown # sent
    /\ \A x \in searches : /\ x.n > 0 /\ x.n <= sent /\ x.n # shown /\ x.n # lost
                           /\ \A r \in x.answer : Answers(r, x.q)
    /\ \A x, y \in searches : x.n = y.n => x = y

NewestIsCurrent ==
    query # Blank =>
        /\ timer # NoOne => timer = query
        /\ timer = NoOne => /\ \A x \in searches : x.n = sent => x.q = query
                            /\ shown = sent /\ ~NewestThrew => ~loading /\ Answers(results, query)

QuietInv == AddressFollows /\ SearchesAreNumbered /\ NewestIsCurrent

LEMMA QuietSteps ==
    ASSUME QuietInv, UNCHANGED <<query, results, loading, timer, searches, sent, shown, lost>>,
           AddressFollows'
    PROVE  QuietInv'
BY DEF QuietInv, SearchesAreNumbered, NewestIsCurrent, NewestThrew, Answers

LEMMA NoCardsAnswer ==
    ASSUME NEW q, NEW b \in BOOLEAN
    PROVE  NoCards(q, b).of = q /\ NoCards(q, b).refused = b
BY DEF NoCards

LEMMA FoundAnswers ==
    ASSUME NEW q \in Word
    PROVE  Answers(Found(q), q) /\ Answers(NoCards(q, TRUE), q)
<1> DEFINE none == NoCards(q, FALSE)
           found == [none EXCEPT !.stores = Hits[q], !.followed = follows \cap Hits[q]]
<1>1. Found(q) = found
  BY BlankAssumption DEF Found
<1>2. found.of = q /\ found.stores = Hits[q]
  BY DEF NoCards
<1> QED
  BY <1>1, <1>2, NoCardsAnswer DEF Answers

LEMMA TypeStaysCurrent ==
    ASSUME ScreenInv, QuietInv, NEW v \in Query, Type(v)
    PROVE  QuietInv'
<1> DEFINE to == [address EXCEPT !.q = v]
<1>1. /\ navigation' = {to} /\ UNCHANGED <<searches, sent, shown, lost>>
      /\ query' = v /\ timer' = IF v = Blank THEN timer ELSE v
  BY DEF Type, Render
<1>2. to.q = v
  BY DEF ScreenInv, DiscoverTypeOK, Address
<1> HIDE DEF to
<1>3. AddressFollows'
  BY <1>1, <1>2 DEF AddressFollows, Heads
<1>4. SearchesAreNumbered'
  BY <1>1 DEF QuietInv, SearchesAreNumbered, NewestThrew, Answers
<1>5. NewestIsCurrent'
  <2> SUFFICES ASSUME v # Blank PROVE timer' = v /\ timer' # NoOne
    BY <1>1 DEF NewestIsCurrent
  <2> QED
    BY <1>1, BlankAssumption DEF Query
<1> QED
  BY <1>3, <1>4, <1>5 DEF QuietInv

LEMMA FireTimerStaysCurrent ==
    ASSUME ScreenInv, QuietInv, FireTimer
    PROVE  QuietInv'
<1> DEFINE asked == [n |-> sent + 1, q |-> timer, answer |-> {}]
<1>1. /\ searches' = searches \cup {asked} /\ sent' = sent + 1 /\ timer # NoOne
      /\ UNCHANGED <<query, shown, lost, address, navigation, dropped>>
  BY DEF FireTimer
<1>2. asked.n = sent + 1 /\ asked.q = timer /\ asked.answer = {}
  OBVIOUS
<1> HIDE DEF asked
<1>3. sent \in Nat /\ \A x \in searches : x.n \in Nat
  BY DEF ScreenInv, DiscoverTypeOK, Search
<1>4. \A x \in searches : x.n <= sent
  BY DEF QuietInv, SearchesAreNumbered
<1>5. SearchesAreNumbered'
  <2>1. shown \in Nat /\ lost \in Nat /\ shown <= sent /\ lost <= sent
    BY DEF QuietInv, SearchesAreNumbered
  <2>2. \A x \in searches' : /\ x.n > 0 /\ x.n <= sent' /\ x.n # shown /\ x.n # lost
                             /\ \A r \in x.answer : Answers(r, x.q)
    <3>1. \A x \in searches : x.n <= sent' /\ x.n > 0 /\ x.n # shown /\ x.n # lost
                              /\ \A r \in x.answer : Answers(r, x.q)
      BY <1>1, <1>3, <1>4 DEF QuietInv, SearchesAreNumbered
    <3>2. sent' > 0 /\ sent' # shown /\ sent' # lost
      BY <1>1, <1>3, <2>1
    <3> QED
      BY <1>1, <1>2, <1>3, <3>1, <3>2
  <2>3. \A x \in searches : x.n # sent + 1
    BY <1>3, <1>4
  <2>4. \A x, y \in searches' : x.n = y.n => x = y
    BY <1>1, <1>2, <2>3 DEF QuietInv, SearchesAreNumbered
  <2> QED
    BY <1>1, <1>3, <2>1, <2>2, <2>4 DEF SearchesAreNumbered, NewestThrew, Answers
<1>6. NewestIsCurrent'
  <2>1. shown # sent' /\ \A x \in searches : x.n # sent'
    BY <1>1, <1>3, <1>4 DEF QuietInv, SearchesAreNumbered
  <2>2. query # Blank => timer = query
    BY <1>1 DEF QuietInv, NewestIsCurrent
  <2>3. timer' = NoOne
    BY DEF FireTimer
  <2> QED
    BY <1>1, <1>2, <2>1, <2>2, <2>3 DEF NewestIsCurrent
<1>7. AddressFollows'
  BY <1>1 DEF QuietInv, AddressFollows, Heads
<1> QED
  BY <1>5, <1>6, <1>7 DEF QuietInv

LEMMA ServeSearchStaysCurrent ==
    ASSUME ScreenInv, QuietInv, NEW x \in searches, ServeSearch(x)
    PROVE  QuietInv'
<1>1. PICK r : Answers(r, x.q) /\ searches' = (searches \ {x}) \cup {[x EXCEPT !.answer = {r}]}
  <2>1. x.q \in Word
    BY DEF ScreenInv, DiscoverTypeOK, Search
  <2> QED
    BY <2>1, FoundAnswers DEF ServeSearch
<1> DEFINE y == [x EXCEPT !.answer = {r}]
<1>2. y.n = x.n /\ y.q = x.q /\ y.answer = {r}
  BY DEF ScreenInv, DiscoverTypeOK, Search
<1>3. searches' = (searches \ {x}) \cup {y}
  BY <1>1
<1> HIDE DEF y
<1>4. UNCHANGED <<query, results, loading, timer, sent, shown, lost, address, navigation, dropped>>
  BY DEF ServeSearch
<1>5. AddressFollows'
  BY <1>4 DEF QuietInv, AddressFollows, Heads
<1>6. SearchesAreNumbered'
  <2>1. \A z \in searches' : /\ z.n > 0 /\ z.n <= sent /\ z.n # shown /\ z.n # lost
                             /\ \A a \in z.answer : Answers(a, z.q)
    BY <1>1, <1>2, <1>3 DEF QuietInv, SearchesAreNumbered
  <2>2. \A z, w \in searches' : z.n = w.n => z = w
    BY <1>2, <1>3 DEF QuietInv, SearchesAreNumbered
  <2> QED
    BY <1>4, <2>1, <2>2 DEF QuietInv, SearchesAreNumbered, NewestThrew, Answers
<1>7. NewestIsCurrent'
  BY <1>2, <1>3, <1>4 DEF QuietInv, NewestIsCurrent, NewestThrew, Answers
<1> QED
  BY <1>5, <1>6, <1>7 DEF QuietInv

\* The answer of the newest search is for what the box says, an older one is not
\* the newest.
LEMMA AnswerSearchStaysCurrent ==
    ASSUME ScreenInv, QuietInv, NEW x \in searches, AnswerSearch(x)
    PROVE  QuietInv'
<1>1. PICK r \in x.answer : Render(query, r, FALSE)
  BY DEF AnswerSearch
<1>2. /\ query' = query /\ results' = r /\ loading' = FALSE
      /\ searches' = searches \ {x} /\ shown' = x.n
      /\ UNCHANGED <<timer, sent, lost, address, navigation, dropped>>
  BY <1>1 DEF AnswerSearch, Render
<1>3. x.n \in Nat /\ x.n > 0 /\ x.n <= sent /\ x.n # lost /\ Answers(r, x.q)
  BY <1>1 DEF ScreenInv, DiscoverTypeOK, Search, QuietInv, SearchesAreNumbered
<1>4. AddressFollows'
  BY <1>2 DEF QuietInv, AddressFollows, Heads
<1>5. SearchesAreNumbered'
  BY <1>2, <1>3 DEF QuietInv, SearchesAreNumbered, NewestThrew, Answers
<1>6. NewestIsCurrent'
  BY <1>2, <1>3 DEF QuietInv, NewestIsCurrent, NewestThrew, Answers
<1> QED
  BY <1>4, <1>5, <1>6 DEF QuietInv

LEMMA LoseSearchStaysCurrent ==
    ASSUME ScreenInv, QuietInv, NEW x \in searches, LoseSearch(x)
    PROVE  QuietInv'
<1>1. /\ searches' = searches \ {x} /\ lost' = x.n
      /\ UNCHANGED <<query, results, loading, timer, sent, shown, address, navigation, dropped>>
  BY DEF LoseSearch
<1>2. x.n \in Nat /\ x.n > 0 /\ x.n <= sent /\ x.n # shown
  BY DEF ScreenInv, DiscoverTypeOK, Search, QuietInv, SearchesAreNumbered
<1>3. AddressFollows'
  BY <1>1 DEF QuietInv, AddressFollows, Heads
<1>4. SearchesAreNumbered'
  BY <1>1, <1>2 DEF QuietInv, SearchesAreNumbered, NewestThrew, Answers
<1>5. shown = sent => ~NewestThrew
  BY DEF QuietInv, SearchesAreNumbered
<1>6. NewestIsCurrent'
  BY <1>1, <1>5 DEF QuietInv, NewestIsCurrent, Answers
<1> QED
  BY <1>3, <1>4, <1>6 DEF QuietInv

LEMMA ReloadStaysCurrent ==
    ASSUME ScreenInv, QuietInv, Reload
    PROVE  QuietInv'
<1>1. /\ query' = address.q /\ results' \in {Found(address.q), NoCards(address.q, TRUE)}
      /\ loading' = FALSE /\ timer' = NoOne /\ searches' = {} /\ shown' = sent /\ lost' = 0
      /\ navigation' = {} /\ UNCHANGED <<sent, address>>
  BY DEF Reload
<1>2. address.q \in Query /\ sent \in Nat
  BY DEF ScreenInv, DiscoverTypeOK, Address
<1>3. address.q # Blank => Answers(results', address.q)
  BY <1>1, <1>2, FoundAnswers DEF Query
<1>4. AddressFollows'
  BY <1>1 DEF AddressFollows, Heads
<1>5. SearchesAreNumbered'
  BY <1>1, <1>2 DEF SearchesAreNumbered, NewestThrew
<1>6. NewestIsCurrent'
  BY <1>1, <1>3 DEF NewestIsCurrent, Answers
<1> QED
  BY <1>4, <1>5, <1>6 DEF QuietInv

\* The address after a step of the shell.
LEMMA ShellStaysCurrent ==
    ASSUME ScreenInv, QuietInv, CommitNavigation \/ ToggleSidebar \/ Resize
    PROVE  QuietInv'
<1>1. UNCHANGED <<query, results, loading, timer, searches, sent, shown, lost>>
  BY DEF CommitNavigation, ToggleSidebar, Resize
<1>2. CASE CommitNavigation
  <2>1. AddressFollows'
    BY <1>1, <1>2 DEF CommitNavigation, QuietInv, AddressFollows, Heads
  <2> QED
    BY <1>1, <2>1, QuietSteps
<1>3. CASE UNCHANGED <<address, navigation, dropped>>
  <2>1. AddressFollows'
    BY <1>1, <1>3 DEF QuietInv, AddressFollows, Heads
  <2> QED
    BY <1>1, <2>1, QuietSteps
<1>4. CASE WriteSidebarParam
  <2>1. address'.q = address.q
    BY <1>4 DEF WriteSidebarParam, ScreenInv, DiscoverTypeOK, Address
  <2>2. AddressFollows'
    BY <1>1, <1>4, <2>1 DEF WriteSidebarParam, QuietInv, AddressFollows, Heads
  <2> QED
    BY <1>1, <2>2, QuietSteps
<1> QED
  BY <1>2, <1>3, <1>4 DEF ToggleSidebar, Resize

LEMMA QuietStep == ScreenInv /\ QuietInv /\ [DiscoverNext]_discoverVars => QuietInv'
<1> SUFFICES ASSUME ScreenInv, QuietInv, [DiscoverNext]_discoverVars PROVE QuietInv'
  OBVIOUS
<1>1. ASSUME UNCHANGED <<query, results, loading, timer, searches, sent, shown, lost,
                         address, navigation, dropped>>
      PROVE  QuietInv'
  <2>1. AddressFollows'
    BY <1>1 DEF QuietInv, AddressFollows, Heads
  <2> QED
    BY <1>1, <2>1, QuietSteps
<1>2. CASE UNCHANGED discoverVars
  BY <1>1, <1>2 DEF discoverVars
<1>3. ASSUME NEW v \in Query, Type(v) PROVE QuietInv'
  BY <1>3, TypeStaysCurrent
<1>4. ASSUME NEW x \in searches, ServeSearch(x) \/ AnswerSearch(x) \/ LoseSearch(x) PROVE QuietInv'
  BY <1>4, ServeSearchStaysCurrent, AnswerSearchStaysCurrent, LoseSearchStaysCurrent
<1>5. ASSUME NEW s \in Shop, Click(s) PROVE QuietInv'
  BY <1>1, <1>5 DEF Click
<1>6. ASSUME NEW x \in requests, CommitRequest(x) \/ RefuseRequest(x) \/ AnswerRequest(x) PROVE QuietInv'
  BY <1>1, <1>6 DEF CommitRequest, RefuseRequest, AnswerRequest
<1> QED
  BY <1>2, <1>3, <1>4, <1>5, <1>6, FireTimerStaysCurrent, ReloadStaysCurrent, ShellStaysCurrent
  DEF DiscoverNext

LEMMA QuietInit == DiscoverInit => QuietInv
<1> SUFFICES ASSUME DiscoverInit PROVE QuietInv
  OBVIOUS
<1>1. PICK q \in Query : query = q /\ results = Found(q) /\ address = [q |-> q, closed |-> FALSE]
  BY DEF DiscoverInit
<1>2. /\ loading = FALSE /\ timer = NoOne /\ searches = {} /\ sent = 0 /\ shown = 0 /\ lost = 0
      /\ navigation = {}
  BY DEF DiscoverInit
<1>3. q # Blank => Answers(results, q)
  BY <1>1, FoundAnswers DEF Query
<1>4. AddressFollows
  BY <1>1, <1>2 DEF AddressFollows, Heads
<1>5. SearchesAreNumbered
  BY <1>2 DEF SearchesAreNumbered, NewestThrew
<1>6. NewestIsCurrent
  BY <1>1, <1>2, <1>3 DEF NewestIsCurrent
<1> QED
  BY <1>4, <1>5, <1>6 DEF QuietInv

\* When nothing is on its way, the URL and the cards are those of the query in the
\* box, whatever the order in which searches, keystrokes and answers came, unless
\* the newest search was overtaken or lost or the sidebar dropped the navigation
\* (discover-search.tsx:26-47, dashboard-shell.tsx:15-22).
THEOREM QuietScreensAreCurrent == DiscoverSpec => []QuietScreenIsCurrent
<1>1. QuietInv => QuietScreenIsCurrent
  BY DEF QuietInv, AddressFollows, NewestIsCurrent, Answers, Quiet, QuietScreenIsCurrent
<1> QED
  BY <1>1, ScreenInit, ScreenStep, QuietInit, QuietStep, PTL DEF DiscoverSpec

-----------------------------------------------------------------------------
(* The pages. *)

Routes == Guest \cup Inside
Views == {"none", "loginForm", "registerForm", "stores", "profile", "notFound", "search", "card",
          "plans", "pending", "error"}
Screens == Views \cup {"timedOut", "checkout", "portal"}
Load == [route : Routes, success : BOOLEAN, waits : SUBSET Calls, view : Views, ignorant : BOOLEAN,
         hops : Nat, slack : Nat]
Offer == [ignorant : BOOLEAN, after : Nat]
Payment == [number : Nat, held : BOOLEAN, offer : Offer]

\* The tab's state has its types.
PagesTypeOK ==
    /\ screen \in Screens /\ load \in Load \cup {NoLoad}
    /\ session \in BOOLEAN /\ plan \in BOOLEAN /\ due \in Nat /\ success \in BOOLEAN
    /\ offer \in Offer /\ payments \subseteq Payment /\ IsFiniteSet(payments)

\* The redirects a route may still cost.
Potential(route, hasSession) ==
    IF route \in Guest THEN (IF hasSession THEN 2 ELSE 0)
    ELSE IF route = "dashboard" \/ ~hasSession THEN 1 ELSE 0

\* A page waits for the calls of its route; plans it shows knowingly are those
\* of a user without one.
LoadOK(l, hasSession, hasPlan, pending) ==
    /\ l.waits \subseteq {PageCall[l.route], "layout"}
    /\ "layout" \in l.waits => l.route \in Inside
    /\ l.hops + Potential(l.route, hasSession) <= 2 + l.slack
    /\ l.view = "plans" /\ ~l.ignorant => ~hasPlan /\ pending = 0

\* Plans that were offered knowingly, and after the last payment.
OfferIsBlind ==
    \/ payments = {} /\ screen \notin {"plans", "checkout"}
    \/ offer.ignorant \/ offer.after < Cardinality(payments)
    \/ ~plan /\ due = 0

PagesInv ==
    /\ PagesTypeOK
    /\ load # NoLoad => LoadOK(load, session, plan, due)
    /\ offer.after <= Cardinality(payments)
    /\ OfferIsBlind
    /\ \A p \in payments : p.number < Cardinality(payments)
    /\ SecondPaymentIsBlind

-----------------------------------------------------------------------------
(* Loading. *)

LEMMA CallsOfRoutes ==
    /\ \A route \in Routes : PageCall[route] \in Calls
    /\ \A route \in Routes : PageCall[route] = "me" => route \in Guest
    /\ \A route \in Routes : PageCall[route] = "subscriptions" => route = "dashboard"
    /\ \A route \in Routes : PageCall[route] = "subscription" => route = "billing"
    /\ \A route \in Routes : PageCall[route] # "layout"
BY DEF PageCall, Routes, Guest, Inside, Calls

LEMMA Opened ==
    ASSUME NEW route \in Routes, NEW param \in BOOLEAN, NEW hops \in Nat, NEW slack \in Nat,
           Go(route, param, hops, slack)
    PROVE  /\ load' \in Load
           /\ \A s \in BOOLEAN : \A p, d : hops + Potential(route, s) <= 2 + slack => LoadOK(load', s, p, d)
<1>1. /\ load' \in [route : {route}, success : {param}, waits : CallSets(route), view : {"none"},
                    ignorant : {FALSE}, hops : {hops}, slack : {slack}]
  BY DEF Go
<1>2. \A w \in CallSets(route) : /\ w \subseteq {PageCall[route], "layout"} /\ w \subseteq Calls
                                 /\ "layout" \in w => route \in Inside
  BY CallsOfRoutes DEF CallSets, Routes, Calls
<1>3. load' \in Load
  BY <1>1, <1>2 DEF Load, Views
<1>4. /\ load'.route = route /\ load'.waits \in CallSets(route) /\ load'.view = "none"
      /\ load'.hops = hops /\ load'.slack = slack
  BY <1>1
<1> QED
  BY <1>2, <1>3, <1>4 DEF LoadOK

\* The pages a user asks for start with no redirects.
LEMMA OpenedByUser ==
    ASSUME NEW route \in Routes, NEW param \in BOOLEAN, Open(route, param)
    PROVE  /\ load' \in Load
           /\ \A s \in BOOLEAN : \A p, d : LoadOK(load', s, p, d)
<1>1. \A s \in BOOLEAN : 0 + Potential(route, s) <= 2 + 0
  BY DEF Potential
<1> QED
  BY <1>1, Opened DEF Open

LEMMA Loading ==
    ASSUME PagesInv, load # NoLoad
    PROVE  /\ load \in Load /\ LoadOK(load, session, plan, due)
           /\ load.route \in Routes /\ load.success \in BOOLEAN /\ load.hops \in Nat /\ load.slack \in Nat
           /\ load.ignorant \in BOOLEAN /\ load.view \in Views
BY DEF PagesInv, PagesTypeOK, Load

\* What an answer does to the load: a redirect, or one call less to wait for.
LEMMA AnsweredLoad ==
    ASSUME PagesInv, load # NoLoad, NEW call \in load.waits, NEW status, NEW slack \in Nat,
           \/ status = Status(call) /\ slack = 0
           \/ status = "failed" /\ slack = 3,
           Answered(call, status, slack), UNCHANGED <<session, plan, due>>
    PROVE  load' \in Load /\ LoadOK(load', session', plan', due')
<1>1. /\ load \in Load /\ LoadOK(load, session, plan, due)
      /\ load.route \in Routes /\ load.success \in BOOLEAN /\ load.hops \in Nat /\ load.slack \in Nat
      /\ load.ignorant \in BOOLEAN /\ load.view \in Views
  BY Loading
<1>2. /\ session \in BOOLEAN /\ plan \in BOOLEAN /\ due \in Nat
      /\ session' \in BOOLEAN /\ session' = session /\ plan' = plan /\ due' = due
  BY DEF PagesInv, PagesTypeOK
<1>3. call \in Calls /\ call \in {PageCall[load.route], "layout"} /\ (call = "layout" => load.route \in Inside)
  BY <1>1 DEF LoadOK, Load
<1>4. CASE Target(call, status) # "stay"
  <2>1. PICK to : to = Target(call, status)
    OBVIOUS
  <2>2. Go(to, FALSE, load.hops + 1, load.slack + slack)
    BY <1>4, <2>1 DEF Answered, Redirect
  <2>3. /\ to \in Routes
        /\ load.hops + 1 + Potential(to, session) <= 2 + load.slack + slack
    <3>1. CASE status = "failed" /\ slack = 3
      <4>1. to \in {"dashboard", "login"}
        BY <1>3, <1>4, <2>1, <3>1 DEF Target, GuestTarget, LayoutTarget, DashboardTarget, BillingTarget, Calls
      <4>2. Potential(to, session) <= 2 /\ Potential(to, session) \in Nat
        BY <4>1 DEF Potential
      <4>3. Potential(load.route, session) \in Nat
        BY DEF Potential
      <4> QED
        BY <1>1, <3>1, <4>1, <4>2, <4>3 DEF LoadOK, Routes, Guest, Inside
    <3>2. CASE status = Status(call) /\ slack = 0
      <4>1. CASE call = "me"
        BY <1>1, <1>2, <1>3, <1>4, <2>1, <3>2, <4>1, CallsOfRoutes
        DEF Target, GuestTarget, Status, Potential, LoadOK, Routes, Guest, Inside
      <4>2. CASE call = "layout"
        BY <1>1, <1>2, <1>3, <1>4, <2>1, <3>2, <4>2
        DEF Target, LayoutTarget, Status, Potential, LoadOK, Routes, Guest, Inside
      <4>3. CASE call = "subscriptions"
        BY <1>1, <1>2, <1>3, <1>4, <2>1, <3>2, <4>3, CallsOfRoutes
        DEF Target, DashboardTarget, Status, Potential, LoadOK, Routes, Guest, Inside
      <4>4. CASE call = "subscription"
        BY <1>1, <1>2, <1>3, <1>4, <2>1, <3>2, <4>4, CallsOfRoutes
        DEF Target, BillingTarget, Status, Potential, LoadOK, Routes, Guest, Inside
      <4> QED
        BY <1>3, <1>4, <4>1, <4>2, <4>3, <4>4 DEF Target, Calls
    <3> QED
      BY <3>1, <3>2
  <2>4. load.hops + 1 \in Nat /\ load.slack + slack \in Nat
    BY <1>1
  <2>5. load.hops + 1 + Potential(to, session') <= 2 + (load.slack + slack)
    BY <1>1, <1>2, <2>3
  <2> QED
    BY <1>2, <2>2, <2>3, <2>4, <2>5, Opened
<1>5. CASE Target(call, status) = "stay"
  <2>1. PICK v, g, k : v = View(call, status) /\ k = load.slack + slack
                       /\ g = (load.ignorant \/ (call = "subscription" /\ (status # "ok" \/ due > 0)))
    OBVIOUS
  <2>2. load' = [load EXCEPT !.waits = load.waits \ {call}, !.view = v, !.slack = k, !.ignorant = g]
    BY <1>5, <2>1 DEF Answered
  <2>3. v \in Views
    BY <1>1, <1>3, <2>1 DEF View, ProfileView, BillingView, Views, Calls
  <2>4. g \in BOOLEAN /\ k \in Nat /\ k >= load.slack
    BY <1>1, <2>1
  <2>5. load' \in Load /\ load'.waits = load.waits \ {call} /\ load'.view = v /\ load'.slack = k
        /\ load'.ignorant = g /\ load'.hops = load.hops /\ load'.route = load.route
    BY <1>1, <2>2, <2>3, <2>4 DEF Load
  <2>6. v = "plans" /\ ~g => ~plan /\ due = 0
    <3>1. CASE call = "subscription"
      <4>1. ~g => status = "ok" /\ ~(due > 0)
        BY <2>1, <3>1
      <4> QED
        BY <1>2, <2>1, <3>1, <4>1 DEF View, BillingView
    <3>2. CASE call = "layout"
      BY <1>1, <1>2, <2>1, <3>2 DEF View, LoadOK
    <3>3. CASE call \notin {"subscription", "layout"}
      BY <1>3, <2>1, <3>3 DEF View, ProfileView, Calls
    <3> QED
      BY <3>1, <3>2, <3>3
  <2>7. Potential(load.route, session) \in Nat
    BY DEF Potential
  <2> QED
    BY <1>1, <1>2, <2>4, <2>5, <2>6, <2>7 DEF LoadOK
<1> QED
  BY <1>4, <1>5

-----------------------------------------------------------------------------
(* The invariant, part by part. *)

\* A step that leaves the tab's payments and what was offered alone, and shows
\* no plans that it did not show.
LEMMA OffersKept ==
    ASSUME PagesInv, UNCHANGED <<offer, payments>>,
           screen' \in {"plans", "checkout"} => screen \in {"plans", "checkout"},
           ~plan /\ due = 0 => ~plan' /\ due' = 0
    PROVE  /\ offer'.after <= Cardinality(payments')
           /\ OfferIsBlind'
           /\ \A p \in payments' : p.number < Cardinality(payments')
           /\ SecondPaymentIsBlind'
BY DEF PagesInv, OfferIsBlind, SecondPaymentIsBlind

\* A load goes on while the session and the plan stay, or another plan ends.
LEMMA LoadKept ==
    ASSUME PagesInv, load' = load, session' = session, ~plan /\ due = 0 => ~plan' /\ due' = 0
    PROVE  load' # NoLoad => LoadOK(load', session', plan', due')
BY DEF PagesInv, LoadOK

LEMMA AnswerStep ==
    ASSUME PagesInv, NEW call \in Calls, Answer(call) \/ FailCall(call)
    PROVE  PagesInv'
<1>1. /\ load # NoLoad /\ call \in load.waits
      /\ UNCHANGED <<screen, session, plan, due, success, offer, payments>>
  BY DEF Answer, FailCall
<1>2. load' \in Load /\ LoadOK(load', session', plan', due')
  <2>1. CASE Answer(call)
    BY <1>1, <2>1, AnsweredLoad DEF Answer
  <2>2. CASE Answered(call, "failed", 3)
    BY <1>1, <2>2, AnsweredLoad
  <2>3. CASE load' = [load EXCEPT !.waits = {}, !.view = "error"]
    <3>1. load \in Load /\ LoadOK(load, session, plan, due)
      BY <1>1, Loading
    <3>2. /\ load' \in Load /\ load'.waits = {} /\ load'.view = "error" /\ load'.slack = load.slack
          /\ load'.hops = load.hops /\ load'.route = load.route
      BY <2>3, <3>1 DEF Load, Views
    <3> QED
      BY <1>1, <3>1, <3>2 DEF LoadOK
  <2> QED
    BY <2>1, <2>2, <2>3 DEF FailCall
<1>3. PagesTypeOK'
  BY <1>1, <1>2 DEF PagesInv, PagesTypeOK
<1> QED
  BY <1>1, <1>2, <1>3, OffersKept DEF PagesInv

LEMMA ShowPageStep == PagesInv /\ ShowPage => PagesInv'
<1> SUFFICES ASSUME PagesInv, ShowPage PROVE PagesInv'
  OBVIOUS
<1>1. /\ load # NoLoad /\ load' = NoLoad /\ UNCHANGED <<session, plan, due, payments>>
      /\ success' = load.success
      /\ screen' \in {screen, load.view}
      /\ screen' = screen /\ screen # load.view => screen \in {"pending", "timedOut"}
      /\ offer' = IF load.view # "plans" THEN offer
                  ELSE [ignorant |-> load.ignorant, after |-> Cardinality(payments)]
  BY DEF ShowPage
<1>2. load \in Load /\ LoadOK(load, session, plan, due) /\ load.view \in Views
      /\ load.ignorant \in BOOLEAN /\ load.success \in BOOLEAN
  BY <1>1, Loading
<1>3. Cardinality(payments) \in Nat
  BY FS_CardinalityType DEF PagesInv, PagesTypeOK
<1>4. PagesTypeOK'
  BY <1>1, <1>2, <1>3 DEF PagesInv, PagesTypeOK, Screens, Offer
<1>5. offer'.after <= Cardinality(payments') /\ OfferIsBlind'
  <2>1. CASE load.view = "plans"
    <3>1. offer'.ignorant = load.ignorant /\ offer'.after = Cardinality(payments)
      BY <1>1, <2>1
    <3> QED
      BY <1>1, <1>2, <1>3, <2>1, <3>1 DEF LoadOK, OfferIsBlind
  <2>2. CASE load.view # "plans"
    <3>1. screen' \notin {"plans", "checkout"}
      BY <1>1, <1>2, <2>2 DEF Views
    <3> QED
      BY <1>1, <2>2, <3>1 DEF PagesInv, OfferIsBlind
  <2> QED
    BY <2>1, <2>2
<1> QED
  BY <1>1, <1>4, <1>5 DEF PagesInv, SecondPaymentIsBlind

\* The user asks for a page, and no payment is made.
LEMMA BrowseStep ==
    ASSUME PagesInv, UNCHANGED <<plan, due, success, offer, payments>>,
           session' \in BOOLEAN, screen' \in Screens,
           screen' \in {"plans", "checkout"} => screen \in {"plans", "checkout"},
           \/ \E route \in Routes, param \in BOOLEAN : Open(route, param)
           \/ load' = NoLoad
           \/ load' = load /\ session' = session
    PROVE  PagesInv'
<1>1. load' \in Load \cup {NoLoad} /\ (load' # NoLoad => LoadOK(load', session', plan', due'))
  <2>1. CASE \E route \in Routes, param \in BOOLEAN : Open(route, param)
    BY <2>1, OpenedByUser
  <2>2. CASE load' = load /\ session' = session
    BY <2>2, LoadKept DEF PagesInv, PagesTypeOK
  <2> QED
    BY <2>1, <2>2
<1>2. PagesTypeOK'
  BY <1>1 DEF PagesInv, PagesTypeOK
<1> QED
  BY <1>1, <1>2, OffersKept DEF PagesInv

LEMMA UserSteps ==
    ASSUME PagesInv,
           \/ \E route \in Guest \cup Inside : Visit(route)
           \/ SubmitLogin \/ SubmitRegister \/ Logout \/ AnswerLogout \/ ChoosePlan \/ ManageBilling
           \/ ComeBack \/ CheckAgain
    PROVE  PagesInv'
<1>1. screen \in Screens /\ session \in BOOLEAN /\ success \in BOOLEAN
  BY DEF PagesInv, PagesTypeOK
<1>2. {"login", "dashboard", "billing"} \subseteq Routes /\ {"checkout", "portal"} \subseteq Screens
  BY DEF Routes, Guest, Inside, Screens
<1>3. ASSUME NEW route \in Routes, Visit(route) PROVE PagesInv'
  BY <1>1, <1>3, BrowseStep DEF Visit, UnchangedTab
<1>4. CASE SubmitLogin
  BY <1>1, <1>2, <1>4, BrowseStep DEF SubmitLogin, Login, UnchangedTab
<1>5. CASE SubmitRegister
  BY <1>1, <1>2, <1>5, BrowseStep DEF SubmitRegister, Register, Login, UnchangedTab
<1>6. CASE Logout
  BY <1>1, <1>6, BrowseStep DEF Logout
<1>7. CASE AnswerLogout
  BY <1>1, <1>2, <1>7, BrowseStep DEF AnswerLogout
<1>8. CASE ChoosePlan
  BY <1>1, <1>2, <1>8, BrowseStep DEF ChoosePlan, ToStripe
<1>9. CASE ManageBilling
  BY <1>1, <1>2, <1>9, BrowseStep DEF ManageBilling, ToStripe
<1>10. CASE ComeBack
  BY <1>1, <1>2, <1>10, BrowseStep DEF ComeBack, UnchangedTab
<1>11. CASE CheckAgain
  BY <1>1, <1>2, <1>11, BrowseStep DEF CheckAgain, UnchangedTab
<1> QED
  BY <1>3, <1>4, <1>5, <1>6, <1>7, <1>8, <1>9, <1>10, <1>11 DEF Routes

LEMMA PollStep == PagesInv /\ Poll => PagesInv'
<1> SUFFICES ASSUME PagesInv, Poll PROVE PagesInv'
  OBVIOUS
<1>1. UNCHANGED <<plan, due, session, success, offer, payments>>
      /\ screen' \in {"pending", "timedOut"}
      /\ (load' = load \/ Open("billing", success))
  BY DEF Poll
<1>2. success \in BOOLEAN /\ session \in BOOLEAN /\ "billing" \in Routes
      /\ "pending" \in Screens /\ "timedOut" \in Screens
  BY DEF PagesInv, PagesTypeOK, Routes, Inside, Screens, Views
<1> QED
  BY <1>1, <1>2, BrowseStep

\* The tab shows plans from before the payments there are.
LEMMA BackToPlansStep == PagesInv /\ BackToPlans => PagesInv'
<1> SUFFICES ASSUME PagesInv, BackToPlans PROVE PagesInv'
  OBVIOUS
<1>1. /\ payments # {} /\ screen' = "plans" /\ success' = FALSE /\ load' = NoLoad
      /\ UNCHANGED <<session, plan, due, offer, payments>>
  BY DEF BackToPlans
<1>2. PagesTypeOK'
  BY <1>1 DEF PagesInv, PagesTypeOK, Screens, Views
<1> QED
  BY <1>1, <1>2 DEF PagesInv, OfferIsBlind, SecondPaymentIsBlind

\* The payment counts itself after what was offered.
LEMMA PayStep == PagesInv /\ Pay => PagesInv'
<1> SUFFICES ASSUME PagesInv, Pay PROVE PagesInv'
  OBVIOUS
<1>1. PICK h, n : h = (plan \/ due > 0) /\ n = Cardinality(payments)
  OBVIOUS
<1> DEFINE paid == [number |-> n, held |-> h, offer |-> offer]
<1>2. /\ screen = "checkout" /\ payments' = payments \cup {paid} /\ due' = due + 1
      /\ Open("billing", TRUE) /\ UNCHANGED <<screen, session, plan, success, offer>>
  BY <1>1 DEF Pay
<1>3. n \in Nat /\ h \in BOOLEAN /\ offer \in Offer /\ IsFiniteSet(payments)
  BY <1>1, FS_CardinalityType DEF PagesInv, PagesTypeOK
<1>4. paid \in Payment /\ paid.number = n /\ paid.held = h /\ paid.offer = offer
  BY <1>3 DEF Payment
<1>5. h => plan \/ due # 0
  BY <1>1 DEF PagesInv, PagesTypeOK
<1> HIDE DEF paid
<1>6. paid \notin payments
  BY <1>1, <1>3, <1>4 DEF PagesInv
<1>7. IsFiniteSet(payments') /\ Cardinality(payments') = n + 1
  BY <1>1, <1>2, <1>3, <1>6, FS_AddElement
<1>8. load' \in Load /\ LoadOK(load', session', plan', due')
  BY <1>2, OpenedByUser DEF PagesInv, PagesTypeOK, Routes, Inside
<1>9. PagesTypeOK'
  BY <1>2, <1>4, <1>7, <1>8 DEF PagesInv, PagesTypeOK
<1>10. offer.after \in Nat /\ offer.after <= n
  BY <1>1, <1>3 DEF PagesInv, Offer
<1>11. offer'.after < Cardinality(payments') /\ OfferIsBlind'
  BY <1>2, <1>3, <1>7, <1>10 DEF OfferIsBlind
<1>12. \A p \in payments' : p.number < Cardinality(payments')
  <2>1. \A p \in payments : p.number \in Nat /\ p.number < n
    BY <1>1 DEF PagesInv, PagesTypeOK, Payment
  <2> QED
    BY <1>2, <1>3, <1>4, <1>7, <2>1
<1>13. h => offer.ignorant \/ offer.after < n
  BY <1>1, <1>2, <1>5 DEF PagesInv, OfferIsBlind
<1>14. SecondPaymentIsBlind'
  BY <1>2, <1>4, <1>13 DEF PagesInv, SecondPaymentIsBlind
<1> QED
  BY <1>8, <1>9, <1>11, <1>12, <1>14, <1>7, <1>2, <1>3, <1>10 DEF PagesInv

LEMMA BackendStep ==
    ASSUME PagesInv, Land \/ End
    PROVE  PagesInv'
<1>1. CASE Land
  <2>1. /\ due > 0 /\ due' = due - 1 /\ plan' = TRUE /\ UNCHANGED <<screen, success, offer, payments, load, session>>
    BY <1>1 DEF Land, UnchangedTab
  <2>2. ~(~plan /\ due = 0)
    BY <2>1
  <2>3. PagesTypeOK'
    BY <2>1 DEF PagesInv, PagesTypeOK
  <2> QED
    BY <2>1, <2>2, <2>3, OffersKept, LoadKept DEF PagesInv
<1>2. CASE End
  <2>1. UNCHANGED <<screen, success, offer, payments, due>> /\ (plan' = plan \/ ~plan') /\ plan' \in BOOLEAN
    BY <1>2 DEF End, UnchangedTab, PagesInv, PagesTypeOK
  <2>2. CASE session' = session /\ load' = load
    <3>1. PagesTypeOK'
      BY <2>1, <2>2 DEF PagesInv, PagesTypeOK
    <3> QED
      BY <2>1, <2>2, <3>1, OffersKept, LoadKept DEF PagesInv
  <2>3. CASE /\ session' = FALSE /\ plan' = plan
             /\ load' = IF load = NoLoad THEN load ELSE [load EXCEPT !.slack = @ + 1]
    <3>1. load' \in Load \cup {NoLoad} /\ (load' # NoLoad => LoadOK(load', session', plan', due'))
      <4>1. CASE load = NoLoad
        BY <2>3, <4>1
      <4>2. CASE load # NoLoad
        <5>1. load \in Load /\ LoadOK(load, session, plan, due) /\ load.slack \in Nat /\ load.hops \in Nat
          BY <4>2, Loading
        <5>2. /\ load' \in Load /\ load'.slack = load.slack + 1 /\ load'.hops = load.hops
              /\ load'.route = load.route /\ load'.waits = load.waits /\ load'.view = load.view
              /\ load'.ignorant = load.ignorant
          BY <2>3, <4>2, <5>1 DEF Load
        <5>3. Potential(load.route, FALSE) <= Potential(load.route, session) + 1
          BY DEF Potential
        <5>4. Potential(load.route, FALSE) \in Nat /\ Potential(load.route, session) \in Nat
          BY DEF Potential
        <5>5. load'.hops + Potential(load'.route, FALSE) <= 2 + load'.slack
          <6>1. load.hops + Potential(load.route, session) <= 2 + load.slack
            BY <5>1 DEF LoadOK
          <6>2. \A h, k, p, q \in Nat : h + q <= 2 + k /\ p <= q + 1 => h + p <= 2 + (k + 1)
            OBVIOUS
          <6>3. load.hops + Potential(load.route, FALSE) <= 2 + (load.slack + 1)
            BY <5>1, <5>3, <5>4, <6>1, <6>2, Zenon
          <6> QED
            BY <5>2, <6>3
        <5>6. LoadOK(load', FALSE, plan, due)
          BY <5>1, <5>2, <5>5 DEF LoadOK
        <5> QED
          BY <2>1, <2>3, <5>2, <5>6
      <4> QED
        BY <4>1, <4>2
    <3>2. PagesTypeOK'
      BY <2>1, <2>3, <3>1 DEF PagesInv, PagesTypeOK
    <3> QED
      BY <2>1, <2>3, <3>1, <3>2, OffersKept DEF PagesInv
  <2> QED
    BY <1>2, <2>2, <2>3 DEF End
<1> QED
  BY <1>1, <1>2

LEMMA PagesStep == PagesInv /\ [PagesNext]_pagesVars => PagesInv'
<1> SUFFICES ASSUME PagesInv, [PagesNext]_pagesVars PROVE PagesInv'
  OBVIOUS
<1>1. CASE UNCHANGED pagesVars
  <2>1. PagesTypeOK' /\ UNCHANGED <<load, session, plan, due, screen, offer, payments>>
    BY <1>1 DEF pagesVars, PagesInv, PagesTypeOK
  <2> QED
    BY <2>1, OffersKept, LoadKept DEF PagesInv
<1> QED
  BY <1>1, AnswerStep, ShowPageStep, UserSteps, PollStep, BackToPlansStep, PayStep, BackendStep
  DEF PagesNext

LEMMA PagesInvariance == PagesSpec => []PagesInv
<1>1. PagesInit => PagesInv
  <2> SUFFICES ASSUME PagesInit PROVE PagesInv
    OBVIOUS
  <2>1. offer = [ignorant |-> FALSE, after |-> 0] /\ payments = {} /\ Cardinality({}) = 0 /\ IsFiniteSet({})
    BY FS_EmptySet DEF PagesInit
  <2>2. PagesTypeOK
    <3>1. offer \in Offer
      BY <2>1 DEF Offer
    <3>2. "loginForm" \in Screens
      BY DEF Screens, Views
    <3> QED
      BY <2>1, <3>1, <3>2 DEF PagesInit, PagesTypeOK
  <2>3. screen \notin {"plans", "checkout"} /\ load = NoLoad
    BY DEF PagesInit
  <2> QED
    BY <2>1, <2>2, <2>3 DEF PagesInv, OfferIsBlind, SecondPaymentIsBlind
<1> QED
  BY <1>1, PagesStep, PTL DEF PagesSpec

\* From wherever the user comes, a page is shown after two redirects, apart from
\* those that failed answers and the end of the session cost
\* (dashboard/page.tsx:17-24, login/page.tsx:5-9, layout.tsx).
THEOREM RedirectsStayBounded == PagesSpec => []RedirectsAreBounded
<1>1. PagesInv => RedirectsAreBounded
  <2> SUFFICES ASSUME PagesInv, load # NoLoad PROVE load.hops <= 2 + load.slack
    BY DEF RedirectsAreBounded
  <2>1. LoadOK(load, session, plan, due) /\ load.hops \in Nat /\ load.slack \in Nat
    BY Loading
  <2>2. Potential(load.route, session) \in Nat
    BY DEF Potential
  <2> QED
    BY <2>1, <2>2 DEF LoadOK
<1> QED
  BY <1>1, PagesInvariance, PTL

\* Whoever pays with a plan active, or a payment on its way, chose from plans
\* that were shown before the last payment, before its webhook had arrived, or
\* without an answer of the backend (billing/page.tsx:13).
THEOREM SecondPaymentsAreBlind == PagesSpec => []SecondPaymentIsBlind
<1>1. PagesInv => SecondPaymentIsBlind
  BY DEF PagesInv
<1> QED
  BY <1>1, PagesInvariance, PTL
=============================================================================
