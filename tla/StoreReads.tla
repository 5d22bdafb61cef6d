----------------------------- MODULE StoreReads -----------------------------
(***************************************************************************)
(* What a user is shown of the stores: the search, a store's profile and   *)
(* the list of followed stores, each composed of several queries, while    *)
(* crawls, follows and imports write between them.                         *)
(*                                                                         *)
(* A query string is told by what it matches.  Stores are numbered in the  *)
(* order of their domains; of crawls and metadata only the latest row is   *)
(* ever read.                                                              *)
(***************************************************************************)
EXTENDS Naturals, Sequences, FiniteSets, FiniteSetsExt

CONSTANTS
  Store,
  IdRank,      \* the order of the stores' ids, by store
  Name,        \* technologies
  NameRank,    \* the order of their names
  Query,       \* a query: the stores whose text it matches, the technologies whose name
  Contents,    \* the contents of the tables that a behaviour may start with
  Page,        \* what a crawl may find: its status, platform and technologies
  Read,        \* requests under way at once
  Limit,       \* results of a search
  Null,
  MaxWrites    \* bound: writes in a behaviour

\* An event of a store's log: a technology was found on it, or no more.
Event == [name : Name, type : {"added", "removed"}]

ASSUME StoreReadsAssumption ==
  /\ Store \subseteq Nat /\ IsFiniteSet(Store) /\ IsFiniteSet(Name)
  /\ IdRank \in [Store -> Nat] /\ NameRank \in [Name -> Nat]
  /\ Query \subseteq [text : SUBSET Store, names : SUBSET Name]
  /\ \A t \in Contents :
       /\ t.stores \subseteq Store /\ t.catalogNames \subseteq Name /\ t.follows \subseteq t.stores
       /\ t.log \in [Store -> Seq(Event)]
  /\ Null \notin {"added", "removed"}
  /\ Limit \in Nat \ {0}
  /\ MaxWrites \in Nat

VARIABLES
  stores,     \* stores
  crawl,      \* store_crawls: the latest status of each store
  metadata,   \* store_metadata: the latest platform of each store
  log,        \* store_technologies: the events of each store, in order
  catalogNames,  \* technologies: the names in the catalog
  follows,    \* store_subscriptions of the user
  read,       \* what each request has read
  writes      \* writes so far

tableVars == <<stores, crawl, metadata, log, catalogNames, follows>>
readVars == <<stores, crawl, metadata, log, catalogNames, follows, read, writes>>

---------------------------------------------------------------------------
(* The queries. *)

\* The rows a LIMIT leaves of S in an order, and in none.
FirstBy(S, Before(_, _), limit) == {x \in S : Cardinality({y \in S : Before(y, x)}) < limit}

Least(m, n) == IF m < n THEN m ELSE n
AnyOf(S, limit) == kSubset(Least(limit, Cardinality(S)), S)

\* Faulty: the oldest event counts.
OldestAsLatest(l, n) ==
  IF \E i \in DOMAIN l : l[i].name = n
  THEN l[Min({i \in DOMAIN l : l[i].name = n})].type ELSE Null

Latest(l, n) ==
  IF \E i \in DOMAIN l : l[i].name = n
  THEN l[Max({i \in DOMAIN l : l[i].name = n})].type ELSE Null

getActiveByStore(s) == {n \in Name : Latest(log[s], n) = "added"}

searchByText(query) == FirstBy(query.text \cap stores, LAMBDA s, t : s < t, Limit)

searchByName(query) == AnyOf(query.names \cap catalogNames, Limit)

\* The limit falls on the latest rows, removals included; they are filtered after.
getActiveStoresForNames(names) ==
  LET latest == {p \in stores \X names : Latest(log[p[1]], p[2]) # Null}
      before(a, b) == \/ IdRank[a[1]] < IdRank[b[1]]
                      \/ a[1] = b[1] /\ NameRank[a[2]] < NameRank[b[2]]
  IN {p \in FirstBy(latest, before, Limit) : Latest(log[p[1]], p[2]) # "removed"}

---------------------------------------------------------------------------
(* The requests.  "undisturbed": nothing was written since it began.       *)

NoRead == [kind |-> "none", undisturbed |-> TRUE]

ReadInit ==
  /\ \E t \in Contents :
       stores = t.stores /\ log = t.log /\ catalogNames = t.catalogNames /\ follows = t.follows
  /\ crawl = [s \in Store |-> Null]
  /\ metadata = [s \in Store |-> Null]
  /\ read = [r \in Read |-> NoRead]
  /\ writes = 0

Go(r, value) == read' = [read EXCEPT ![r] = value] /\ UNCHANGED <<tableVars, writes>>

\* StoreSearchView.search: the first two queries go together.
StartSearch(r, query) ==
  /\ read[r] = NoRead
  /\ Go(r, [kind |-> "search", undisturbed |-> TRUE, next |-> "matches", query |-> query,
            text |-> Null, names |-> Null, matched |-> {}, shown |-> {}, subscribed |-> {}])

SearchText(r) ==
  /\ read[r].kind = "search" /\ read[r].next = "matches" /\ read[r].text = Null
  /\ Go(r, [read[r] EXCEPT !.text = searchByText(read[r].query)])

SearchCatalog(r) ==
  /\ read[r].kind = "search" /\ read[r].next = "matches" /\ read[r].names = Null
  /\ \E names \in searchByName(read[r].query) : Go(r, [read[r] EXCEPT !.names = names])

FindActiveStores(r) ==
  /\ read[r].kind = "search" /\ read[r].next = "matches" /\ read[r].text # Null /\ read[r].names # Null
  /\ Go(r, [read[r] EXCEPT !.next = "stores", !.matched = getActiveStoresForNames(read[r].names)])

\* Faulty: a store that matches by text too is read again and shown in its place.
UnfilteredHydrateStores(r) ==
  /\ read[r].kind = "search" /\ read[r].next = "stores"
  /\ LET hydrated == FirstBy({p[1] : p \in read[r].matched},
                             LAMBDA s, t : IdRank[s] < IdRank[t], Limit) \cap stores IN
       \E chosen \in AnyOf(hydrated, Limit - Cardinality(read[r].text)) :
         Go(r, [read[r] EXCEPT !.next = "follows", !.shown = read[r].text \cup chosen])

\* The stores that match by technology only are read without an order, and
\* fill what the text matches leave of the limit.
HydrateStores(r) ==
  /\ read[r].kind = "search" /\ read[r].next = "stores"
  /\ LET techOnly == {p[1] : p \in read[r].matched} \ read[r].text
         hydrated == FirstBy(techOnly, LAMBDA s, t : IdRank[s] < IdRank[t], Limit) \cap stores IN
       \E chosen \in AnyOf(hydrated, Limit - Cardinality(read[r].text)) :
         Go(r, [read[r] EXCEPT !.next = "follows", !.shown = read[r].text \cup chosen])

AnnotateFollows(r) ==
  /\ read[r].kind = "search" /\ read[r].next = "follows"
  /\ Go(r, [read[r] EXCEPT !.next = "answer", !.subscribed = read[r].shown \cap follows])

\* StoreProfileView.forStore and SubscriptionView.forUser: the stores, then all
\* the parts of each at once.  A store that is not there is answered 404.
Parts == {"crawl", "metadata", "technologies"}
ProfileParts == Parts \cup {"events", "subscription"}

Compose(r, kind, shown, parts) ==
  Go(r, [kind |-> kind, undisturbed |-> TRUE, shown |-> shown, todo |-> shown \X parts, got |-> <<>>])

StartProfile(r, s) == read[r] = NoRead /\ s \in stores /\ Compose(r, "profile", {s}, ProfileParts)

StartList(r) == read[r] = NoRead /\ follows # {} /\ Compose(r, "list", follows, Parts)

PartOf(s, part) ==
  CASE part = "crawl" -> crawl[s]
    [] part = "metadata" -> metadata[s]
    [] part = "technologies" -> getActiveByStore(s)
    [] part = "events" -> log[s]
    [] part = "subscription" -> s \in follows

ReadPart(r, p) ==
  /\ read[r].kind \in {"profile", "list"} /\ p \in read[r].todo
  /\ Go(r, [read[r] EXCEPT !.todo = @ \ {p},
              !.got = [q \in DOMAIN @ \cup {p} |-> IF q = p THEN PartOf(p[1], p[2]) ELSE @[q]]])

\* The response: it leaves out nothing that was read.
Complete(r) ==
  \/ read[r].kind = "search" /\ read[r].next = "answer"
  \/ read[r].kind \in {"profile", "list"} /\ read[r].todo = {}

Respond(r) == Complete(r) /\ Go(r, NoRead)

---------------------------------------------------------------------------
(* The writes of the other components, each a statement of its own. *)

Write ==
  /\ writes < MaxWrites
  /\ writes' = writes + 1
  /\ read' = [r \in Read |-> IF read[r] = NoRead THEN NoRead ELSE [read[r] EXCEPT !.undisturbed = FALSE]]

\* StoreRepository.create, and upsertMany, which skips the domains it has.
AddStores(new) ==
  /\ Write /\ new \ stores # {}
  /\ stores' = stores \cup new
  /\ UNCHANGED <<crawl, metadata, log, catalogNames, follows>>

RecordCrawl(s, page) ==
  /\ Write /\ s \in stores
  /\ crawl' = [crawl EXCEPT ![s] = page.status]
  /\ UNCHANGED <<stores, metadata, log, catalogNames, follows>>

RecordMetadata(s, page) ==
  /\ Write /\ s \in stores /\ metadata[s] # page.platform
  /\ metadata' = [metadata EXCEPT ![s] = page.platform]
  /\ UNCHANGED <<stores, crawl, log, catalogNames, follows>>

RecordTechnologies(s, page) ==
  /\ Write /\ s \in stores
  /\ \E n \in Name :
       /\ (n \in getActiveByStore(s)) # (n \in page.technologies)
       /\ log' = [log EXCEPT ![s] =
            Append(@, [name |-> n, type |-> IF n \in page.technologies THEN "added" ELSE "removed"])]
  /\ UNCHANGED <<stores, crawl, metadata, catalogNames, follows>>

SyncCatalog ==
  /\ Write /\ catalogNames # Name
  /\ catalogNames' = Name
  /\ UNCHANGED <<stores, crawl, metadata, log, follows>>

ToggleFollow(s) ==
  /\ Write /\ s \in stores
  /\ follows' = IF s \in follows THEN follows \ {s} ELSE follows \cup {s}
  /\ UNCHANGED <<stores, crawl, metadata, log, catalogNames>>

ReadNext ==
  \/ \E r \in Read :
       \/ \E query \in Query : StartSearch(r, query)
       \/ SearchText(r) \/ SearchCatalog(r) \/ FindActiveStores(r) \/ HydrateStores(r) \/ AnnotateFollows(r)
       \/ \E s \in Store : StartProfile(r, s)
       \/ StartList(r) \/ Respond(r)
       \/ \E p \in Store \X ProfileParts : ReadPart(r, p)
  \/ \E s \in Store : AddStores({s}) \/ ToggleFollow(s)
  \/ \E s \in Store, page \in Page : RecordCrawl(s, page) \/ RecordMetadata(s, page) \/ RecordTechnologies(s, page)
  \/ AddStores(Store) \/ SyncCatalog

ReadSpec == ReadInit /\ [][ReadNext]_readVars

---------------------------------------------------------------------------
(* Properties. *)

\* A technology is in use when its last event is an addition.
InUse(l) ==
  {n \in Name : \E i \in DOMAIN l : /\ l[i] = [name |-> n, type |-> "added"]
                                  /\ \A j \in DOMAIN l : j > i => l[j].name # n}

Uses(s, names) == names \cap InUse(log[s])

\* The rows the technology query can see before the limit cuts them.
Candidates(names) == {p \in stores \X names : \E i \in DOMAIN log[p[1]] : log[p[1]][i].name = p[2]}

\* A search between whose queries nothing is written shows exactly the stores
\* that match by text or by a technology they use now, each once, with those
\* technologies and the user's follows - as long as the latest rows of the
\* matched technologies, the removals among them, and the results stay within
\* the limit; and never more than the limit.
SearchFindsTheStores ==
  \A r \in Read : read[r].kind = "search" /\ read[r].next = "answer" =>
    /\ Cardinality(read[r].shown) <= Limit
    /\ LET names == read[r].query.names \cap catalogNames
           wanted == {s \in stores : s \in read[r].query.text \/ Uses(s, names) # {}}
           few(S) == Cardinality(S) <= Limit IN
       read[r].undisturbed /\ few(names) /\ few(Candidates(names)) /\ few(wanted) =>
         /\ read[r].shown = wanted
         /\ \A s \in wanted : {n \in Name : <<s, n>> \in read[r].matched} = Uses(s, names)
         /\ read[r].subscribed = wanted \cap follows

\* A profile or a list between whose queries nothing is written shows one state
\* of its stores, with the technologies that its own history leaves; a profile
\* that was written to in between still shows a history that only grows, and
\* names no technology that was not in use at some time.
ProfilesAreCoherent ==
  \A r \in Read : read[r].kind \in {"profile", "list"} /\ read[r].todo = {} =>
    \A s \in read[r].shown :
      LET shown(part) == read[r].got[<<s, part>>] IN
      /\ read[r].undisturbed =>
           /\ shown("crawl") = crawl[s] /\ shown("metadata") = metadata[s]
           /\ shown("technologies") = InUse(log[s])
           /\ read[r].kind = "profile" => shown("subscription") = (s \in follows)
           /\ read[r].kind = "list" => s \in follows
      /\ read[r].kind = "profile" =>
           \E i \in 0..Len(log[s]) :
             /\ shown("events") = SubSeq(log[s], 1, i)
             /\ \E j \in 0..Len(log[s]) :
                  shown("technologies") = InUse(SubSeq(log[s], 1, j))

=============================================================================
