---------------------------- MODULE CampaignCopies ----------------------------
(***************************************************************************)
(* Clones and imports: requests that create one campaign after another     *)
(* with no transaction around them, the phone that gives up on a request   *)
(* that takes too long and asks again, and the campaigns' other life       *)
(* meanwhile (a post is bound, an account is disconnected).                *)
(*                                                                         *)
(* Of a campaign the model keeps its account, what it listens to, and the  *)
(* campaign it was copied from.  Its texts are copied one by one.          *)
(***************************************************************************)
EXTENDS Integers, FiniteSets, Functions

CONSTANTS Handlers,     \* requests at the server
          Clients,      \* the workspace's Instagram accounts
          Posts,        \* posts
          PostOwner,    \* PostOwner[p]: the account p was published on
          MaxRows,      \* bound: campaigns ever created
          MaxAsks       \* bound: clones and imports submitted

ASSUME CopiesAssumption ==
    /\ DOMAIN PostOwner = Posts /\ IsFiniteSet(Handlers) /\ IsFiniteSet(Clients)
    /\ "nobody" \notin Handlers /\ {"none", "gone"} \cap Clients = {} /\ "no post" \notin Posts
    /\ {MaxRows, MaxAsks} \subseteq Nat

VARIABLES rows,       \* rows[i]: campaign i, or NoCampaign
          connected,  \* accounts that are connected
          exported,   \* the export that was shared: a set of entries
          request,    \* request[h]: a request at the server
          waiting,    \* the request the phone's button waits for, or nobody
          asks,       \* asks[i][a]: how often a copy of i on a was asked for
          promised,   \* promised[i][a]: how many were reported as created
          bound,      \* campaigns that were bound to their post by a sweep
          raced       \* accounts on which two imports overlapped

copiesVars == <<rows, connected, exported, request, waiting, asks, promised, bound, raced>>

NoCampaign == [account |-> "none"]
NoRequest  == [at |-> "idle"]
NoWaiting  == "nobody"
Ids        == 1 .. MaxRows
Unbound    == "no post"

\* What a campaign listens to: a post, the next post, any post, direct messages.
Campaign(a, p, next, any, dm, i) ==
    [account |-> a, post |-> p, next |-> next, any |-> any, dm |-> dm, of |-> i]

Live == {i \in Ids : rows[i].account \in Clients}
Free == {i \in Ids : rows[i] = NoCampaign /\ \A j \in Ids : j < i => rows[j] # NoCampaign}

CopiesInit ==
    /\ \E a \in Clients, kind \in {"post", "next", "any", "dm"}, p \in Posts :
          /\ PostOwner[p] = a
          /\ rows = [i \in Ids |->
                        CASE i = 1 -> Campaign(a, IF kind = "post" THEN p ELSE Unbound, kind = "next",
                                               kind = "any", kind = "dm", 1)
                          [] i = 2 -> Campaign(a, Unbound, FALSE, TRUE, FALSE, 2)
                          [] OTHER -> NoCampaign]
    /\ connected = Clients
    /\ exported = {}
    /\ request = [h \in Handlers |-> NoRequest]
    /\ waiting = NoWaiting
    /\ asks = [i \in Ids |-> [a \in Clients |-> 0]]
    /\ promised = [i \in Ids |-> [a \in Clients |-> 0]]
    /\ bound = {}
    /\ raced = {}

Asked == LET each == [i \in Ids |-> FoldFunction(+, 0, asks[i])] IN FoldFunction(+, 0, each)

-----------------------------------------------------------------------------
(* Clones *)

\* The clone button: some accounts other than the campaign's own are ticked.
SubmitClone(h, i, targets) ==
    /\ waiting = NoWaiting /\ request[h] = NoRequest
    /\ i \in Live /\ rows[i].of = i
    /\ targets # {} /\ targets \subseteq connected \ {rows[i].account}
    /\ Asked + Cardinality(targets) <= MaxAsks
    /\ waiting' = h
    /\ request' = [request EXCEPT ![h] = [at |-> "clone", of |-> i, left |-> targets]]
    /\ asks' = [asks EXCEPT ![i] = [a \in Clients |-> IF a \in targets THEN @[a] + 1 ELSE @[a]]]
    /\ UNCHANGED <<rows, connected, exported, promised, bound, raced>>

\* The source and the accounts that are still there are read; without a source
\* the request is refused.
ReadSource(h) ==
    /\ request[h].at = "clone"
    /\ LET i == request[h].of IN
       request' = [request EXCEPT ![h] =
           IF i \in Live
           THEN [at |-> "cloning", of |-> i, source |-> rows[i],
                 left |-> (request[h].left \cap connected) \ {rows[i].account}, made |-> {}]
           ELSE [at |-> "failed"]]
    /\ UNCHANGED <<rows, connected, exported, waiting, asks, promised, bound, raced>>

\* The copy of the campaign read, on another account: its post belongs to the
\* first one, so the copy waits for the next.
Cloned(r, a) ==
    Campaign(a, Unbound, ~r.source.any /\ (r.source.next \/ r.source.post # Unbound),
             r.source.any, r.source.dm, r.of)

\* One account of the loop.  One that was disconnected since fails the request.
CloneOne(h) ==
    /\ request[h].at = "cloning"
    /\ \E a \in request[h].left :
          IF a \in connected
          THEN \E i \in Free :
                  /\ rows' = [rows EXCEPT ![i] = Cloned(request[h], a)]
                  /\ request' = [request EXCEPT ![h].left = @ \ {a}, ![h].made = @ \cup {a}]
          ELSE /\ request' = [request EXCEPT ![h] = [at |-> "failed"]]
               /\ UNCHANGED rows
    /\ UNCHANGED <<connected, exported, waiting, asks, promised, bound, raced>>

-----------------------------------------------------------------------------
(* Imports *)

\* The export of the list on the screen.
Export ==
    /\ exported = {}
    /\ exported' = {[of |-> i, from |-> rows[i].account, post |-> rows[i].post, next |-> rows[i].next,
                     any |-> rows[i].any, dm |-> rows[i].dm] : i \in {j \in Live : rows[j].of = j}}
    /\ UNCHANGED <<rows, connected, request, waiting, asks, promised, bound, raced>>

SubmitImport(h, a) ==
    /\ waiting = NoWaiting /\ request[h] = NoRequest
    /\ exported # {} /\ a \in connected
    /\ Asked + Cardinality(exported) <= MaxAsks
    /\ waiting' = h
    /\ request' = [request EXCEPT ![h] = [at |-> "import", account |-> a]]
    /\ asks' = [i \in Ids |->
                   IF \E e \in exported : e.of = i THEN [asks[i] EXCEPT ![a] = @ + 1] ELSE asks[i]]
    /\ UNCHANGED <<rows, connected, exported, promised, bound, raced>>

Importing(h, a) == request[h].at = "importing" /\ request[h].account = a

\* Mutant: the posts that are taken are not read.
ReadNoPosts(h) ==
    /\ request[h].at = "import"
    /\ LET a == request[h].account IN
       request' = [request EXCEPT ![h] =
                      [at |-> "importing", account |-> a, left |-> exported, made |-> {}, used |-> {}]]
    /\ UNCHANGED <<rows, connected, exported, waiting, asks, promised, bound, raced>>

\* The account is looked up, and the posts its campaigns are on are read, once.
ReadUsedPosts(h) ==
    /\ request[h].at = "import"
    /\ LET a == request[h].account IN
       IF a \in connected
       THEN /\ request' = [request EXCEPT ![h] =
                   [at |-> "importing", account |-> a, left |-> exported, made |-> {},
                    used |-> {rows[i].post : i \in {j \in Live : rows[j].account = a}} \ {Unbound}]]
            /\ raced' = IF \E g \in Handlers : Importing(g, a) THEN raced \cup {a} ELSE raced
       ELSE /\ request' = [request EXCEPT ![h] = [at |-> "failed"]]
            /\ UNCHANGED raced
    /\ UNCHANGED <<rows, connected, exported, waiting, asks, promised, bound>>

\* A post is kept when the export was made of the account it is imported to.
KeepsPost(e, a) == e.from = a /\ e.post # Unbound

\* The campaign an entry becomes.
Imported(e, a) ==
    LET keep == KeepsPost(e, a)
        any  == ~keep /\ e.any
        next == ~any /\ (e.next \/ (e.post # Unbound /\ ~keep))
    IN  Campaign(a, IF keep THEN e.post ELSE Unbound, next, any,
                 e.dm \/ ~(keep \/ any \/ next), e.of)

\* One entry of the file.  An account that is gone fails the request.
ImportOne(h) ==
    /\ request[h].at = "importing"
    /\ \E e \in request[h].left :
          LET a == request[h].account
              done == [request[h] EXCEPT !.left = @ \ {e}] IN
          \/ /\ KeepsPost(e, a) /\ e.post \in request[h].used
             /\ request' = [request EXCEPT ![h] = done]
             /\ UNCHANGED rows
          \/ /\ ~(KeepsPost(e, a) /\ e.post \in request[h].used)
             /\ IF a \in connected
                THEN \E i \in Free :
                        /\ rows' = [rows EXCEPT ![i] = Imported(e, a)]
                        /\ request' = [request EXCEPT ![h] =
                               [done EXCEPT !.made = @ \cup {e.of},
                                            !.used = @ \cup (IF KeepsPost(e, a) THEN {e.post} ELSE {})]]
                ELSE request' = [request EXCEPT ![h] = [at |-> "failed"]] /\ UNCHANGED rows
    /\ UNCHANGED <<connected, exported, waiting, asks, promised, bound, raced>>

-----------------------------------------------------------------------------
(* The answers *)

\* The loop has ended: the phone is told what was created.
Answered(h) ==
    /\ request[h].at \in {"cloning", "importing"} /\ request[h].left = {}
    /\ promised' =
          IF waiting # h THEN promised
          ELSE IF request[h].at = "cloning"
               THEN [promised EXCEPT ![request[h].of] =
                        [a \in Clients |-> IF a \in request[h].made THEN @[a] + 1 ELSE @[a]]]
               ELSE [i \in Ids |-> IF i \in request[h].made
                                   THEN [promised[i] EXCEPT ![request[h].account] = @ + 1]
                                   ELSE promised[i]]
    /\ request' = [request EXCEPT ![h] = NoRequest]
    /\ waiting' = IF waiting = h THEN NoWaiting ELSE waiting
    /\ UNCHANGED <<rows, connected, exported, asks, bound, raced>>

\* An error on the way: what was created stays.
RequestFails(h) ==
    /\ request[h] # NoRequest
    /\ request' = [request EXCEPT ![h] = NoRequest]
    /\ waiting' = IF waiting = h THEN NoWaiting ELSE waiting
    /\ UNCHANGED <<rows, connected, exported, asks, promised, bound, raced>>

\* The phone stops waiting after twenty seconds; the request goes on.
GiveUp ==
    /\ waiting # NoWaiting
    /\ waiting' = NoWaiting
    /\ UNCHANGED <<rows, connected, exported, request, asks, promised, bound, raced>>

-----------------------------------------------------------------------------
(* Meanwhile *)

\* A campaign that waits (a copy: once it was resumed) is bound to a post of its
\* account.  Other campaigns may be on that post already.
Bind(i) ==
    /\ i \in Live /\ rows[i].next
    /\ \E p \in Posts :
          /\ PostOwner[p] = rows[i].account
          /\ rows' = [rows EXCEPT ![i].post = p, ![i].next = FALSE]
    /\ bound' = bound \cup {i}
    /\ UNCHANGED <<connected, exported, request, waiting, asks, promised, raced>>

\* An account is disconnected: its campaigns go with it.
Disconnect(a) ==
    /\ a \in connected /\ connected # {a}
    /\ connected' = connected \ {a}
    /\ rows' = [i \in Ids |-> IF rows[i].account = a THEN [rows[i] EXCEPT !.account = "gone"] ELSE rows[i]]
    /\ UNCHANGED <<exported, request, waiting, asks, promised, bound, raced>>

CopiesNext ==
    \/ \E h \in Handlers, i \in Ids, s \in SUBSET Clients : SubmitClone(h, i, s)
    \/ \E h \in Handlers, a \in Clients : SubmitImport(h, a)
    \/ \E h \in Handlers : \/ ReadSource(h) \/ CloneOne(h) \/ ReadUsedPosts(h) \/ ImportOne(h)
                           \/ Answered(h) \/ RequestFails(h)
    \/ Export \/ GiveUp
    \/ \E i \in Ids : Bind(i)
    \/ \E a \in Clients : Disconnect(a)

CopiesSpec == CopiesInit /\ [][CopiesNext]_copiesVars

-----------------------------------------------------------------------------
(* Properties *)

Copies(i, a) == Cardinality({j \in Live : rows[j].of = i /\ j # i /\ rows[j].account = a})

\* The type invariant: what a campaign listens to excludes the rest, and its copies
\* are of campaigns that were made before it.
CopiesTypeOK ==
    /\ \A i \in Ids : \/ rows[i] = NoCampaign
                     \/ /\ rows[i].account \in Clients \cup {"gone"}
                        /\ rows[i].post \in Posts \cup {Unbound}
                        /\ rows[i].any => ~rows[i].next
                        /\ rows[i].any \/ rows[i].next => rows[i].post = Unbound
                        /\ rows[i].of \in 1 .. i
    /\ connected \subseteq Clients
    /\ \A h \in Handlers : request[h].at \in {"idle", "clone", "cloning", "import", "importing", "failed"}
    /\ waiting \in Handlers \cup {NoWaiting}
    /\ asks \in [Ids -> [Clients -> 0 .. MaxAsks]]
    /\ promised \in [Ids -> [Clients -> 0 .. MaxAsks]]
    /\ bound \subseteq Ids /\ raced \subseteq Clients

\* A campaign listens to a post of its own account, whichever account its text
\* comes from.
PostsStayWithTheirAccount ==
    \A i \in Live : rows[i].post # Unbound => PostOwner[rows[i].post] = rows[i].account

\* Every copy can be woken by something.
CopiesListen ==
    \A i \in Live : rows[i].post # Unbound \/ rows[i].next \/ rows[i].any \/ rows[i].dm

\* There are at least as many copies as were reported, and at most as many as
\* were asked for: an error on the way, or a phone that did not wait, leaves
\* copies nobody was told of, and asking again makes them twice.
CopiesMatchAsks ==
    \A i \in Live, a \in connected : promised[i][a] <= Copies(i, a) /\ Copies(i, a) <= asks[i][a]

\* An import puts no second campaign on a post, unless two imports overlapped or
\* a sweep bound one of the two.
TwinPostsAreRaces ==
    \A i, j \in Live :
        (i # j /\ rows[i].post = rows[j].post /\ rows[i].post # Unbound) =>
            {i, j} \cap bound # {} \/ rows[i].account \in raced

\* Clones and imports, some asked for twice: as many copies as asks, each on its
\* account's own post or none, listening to what the original listens to, two on
\* one post only where imports raced.
CopiesAreSound ==
    /\ CopiesTypeOK
    /\ PostsStayWithTheirAccount
    /\ CopiesListen
    /\ CopiesMatchAsks
    /\ TwinPostsAreRaces

=============================================================================
