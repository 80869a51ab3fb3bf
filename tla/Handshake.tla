----------------------------- MODULE Handshake -----------------------------
(***************************************************************************)
(* How the nodes of ramcube.c come to be connected.  Of two peers only the *)
(* one with the greater address connects when it starts; the other does so *)
(* when the TYPE command of the first tells it that it is there.  Nodes    *)
(* stop and start in any order; nothing is retried (event_cb() is empty)   *)
(* and no proxy is ever taken out of an array.                             *)
(***************************************************************************)
EXTENDS Naturals, Sequences, SequencesExt, FiniteSets

CONSTANTS
    NumNodes,       \* nodes are numbered in the order of inet_addr_compare()
    TypeOrder,      \* the types in the order ramcube_init() goes through them
    Config,         \* the lines of each node's configuration file: key and node
    MAX_NEIGHBORS,
    MaxStarts       \* bound: starts of nodes

Nodes == 1..NumNodes
Types == ToSet(TypeOrder)
MeKeys == {"me", "coordinator", "primary"}
PeerLines(n) == SelectSeq(Config[n], LAMBDA line : line.key \in Types)

ASSUME HandshakeAssumption ==
    /\ NumNodes \in Nat \ {0} /\ MAX_NEIGHBORS \in Nat \ {0} /\ MaxStarts \in Nat
    /\ Config \in [Nodes -> Seq([key : Types \cup MeKeys, node : Nodes])]
    /\ \A n \in Nodes :
          /\ \E i \in DOMAIN Config[n] : Config[n][i].key \in MeKeys
          \* alloc_sin_from_neighbors(): one pool for all types; a line beyond
          \* it writes through a null pointer.
          /\ Len(PeerLines(n)) <= MAX_NEIGHBORS

\* init_ramcube_config(): the last line that names me counts, and the peers
\* of a type come in the order of their lines.
Me(n) == Last(SelectSeq(Config[n], LAMBDA line : line.key \in MeKeys)).node
PushBackSin(sins, line) == [sins EXCEPT ![line.key] = Append(@, line.node)]
Sins(n) == FoldLeft(PushBackSin, [t \in Types |-> <<>>], PeerLines(n))

\* "here we simply assume if a node is my backup/ping, then i must be its
\* backup/ping, too"
ASSUME MutualAssumption ==
    /\ \A n \in Nodes : Me(n) = n
    /\ \A n, p \in Nodes, t \in Types : Contains(Sins(n)[t], p) => Contains(Sins(p)[t], n)

VARIABLES
    started,        \* when each node has started, 0 while it is down
    starts,         \* starts so far
    link,           \* connections between nodes: from, to, type and state
    out,            \* vpPingOut, vpBackupOut, vpCoordinatorOut: indices of link
    in              \* vpPingIn, vpBackupIn, vpCoordinatorIn

vars == <<started, starts, link, out, in>>

Up(n) == started[n] > 0
Empty == [t \in Types |-> <<>>]

Init ==
    /\ started = [n \in Nodes |-> 0]
    /\ starts = 0
    /\ link = <<>>
    /\ out = [n \in Nodes |-> Empty]
    /\ in = [n \in Nodes |-> Empty]

\* inet_addr_compare() of my address with the peer's; a node that is
\* configured as its own peer is passed over.
Greater(n, p) == n > p

\* Mutant: a slot beyond the last.
PushBack_Past(array, i) == IF Len(array) <= MAX_NEIGHBORS THEN Append(array, i) ELSE array

\* push_back_proxy(): nobody hears of an array that is full, the assertion is
\* compiled out.
PushBack(array, i) == IF Len(array) < MAX_NEIGHBORS THEN Append(array, i) ELSE array

\* connect_and_return_ConnProxy(): the connection is only begun; TYPE waits in
\* the output buffer until there is one.
Dial(n, p, t) == [from |-> n, to |-> p, type |-> t, state |-> "connecting"]

\* bufferevent_socket_connect() may also fail at once when nobody listens there:
\* such a proxy is dropped before it is in an array.
Refused(l) == [l EXCEPT !.state = "dead"]
MayRefuse(l) == ~Up(l.to)

\* init_smaller_proxies() for each type.
Dials(n) ==
    FlattenSeq([k \in DOMAIN TypeOrder |->
        LET t == TypeOrder[k]
            smaller == SelectSeq(Sins(n)[t], LAMBDA p : Greater(Me(n), p))
        IN  [j \in DOMAIN smaller |-> Dial(Me(n), smaller[j], t)]])

\* ramcube_init(), with the arrays of a new process.
Start(n) ==
    /\ ~Up(n) /\ starts < MaxStarts
    /\ starts' = starts + 1
    /\ started' = [started EXCEPT ![n] = starts + 1]
    /\ \E refused \in SUBSET {k \in DOMAIN Dials(n) : MayRefuse(Dials(n)[k])} :
          link' = link \o [k \in DOMAIN Dials(n) |->
                              IF k \in refused THEN Refused(Dials(n)[k]) ELSE Dials(n)[k]]
    /\ LET Add(t, array, i) == IF link'[i].type = t /\ link'[i].state = "connecting"
                               THEN PushBack(array, i) ELSE array
       IN  out' = [out EXCEPT ![n] = [t \in Types |->
                      FoldLeft(LAMBDA array, i : Add(t, array, i),
                               <<>>, [k \in DOMAIN Dials(n) |-> Len(link) + k])]]
    /\ in' = [in EXCEPT ![n] = Empty]

\* A TYPE that has been sent may be read after its sender is gone.
Stop(n) ==
    /\ Up(n)
    /\ started' = [started EXCEPT ![n] = 0]
    /\ link' = [i \in DOMAIN link |->
                  CASE link[i].from = n /\ link[i].state = "typed" -> [link[i] EXCEPT !.state = "unread"]
                    [] link[i].from = n /\ link[i].state # "typed" /\ link[i].state # "unread"
                          -> [link[i] EXCEPT !.state = "dead"]
                    [] link[i].to = n /\ link[i].state # "connecting"
                          -> [link[i] EXCEPT !.state = "dead"]
                    [] OTHER -> link[i]]
    /\ UNCHANGED <<starts, out, in>>

\* The proxy the peer makes for an accepted connection: a data server's, until
\* TYPE has been read.
ServerProxyNew(l) == [l EXCEPT !.state = "typed"]

\* A connection that is refused stays in its array.
Connected(i) ==
    /\ i \in DOMAIN link /\ link[i].state = "connecting"
    /\ link' = [link EXCEPT ![i] = IF Up(@.to) THEN ServerProxyNew(@)
                                   ELSE [@ EXCEPT !.state = "dead"]]
    /\ UNCHANGED <<started, starts, out, in>>

\* TYPE is a command only for a data server's proxy.
TypeUnread(i) == i \in DOMAIN link /\ link[i].state \in {"typed", "unread"}

\* The smaller node connects back.
DialBack(me, peer, t, links) ==
    LET l == Dial(me, peer, t)
    IN  \/ /\ link' = Append(links, l)
           /\ out' = [out EXCEPT ![me][t] = PushBack(@, Len(links) + 1)]
        \/ /\ MayRefuse(l)
           /\ link' = Append(links, Refused(l))
           /\ UNCHANGED out

\* Mutant: the comparison the wrong way round.
ReadType_Swapped(i) ==
    /\ TypeUnread(i)
    /\ LET me == link[i].to
           peer == link[i].from
           t == link[i].type
           read == [link EXCEPT ![i].state = IF @ = "typed" THEN "open" ELSE "dead"]
       IN  /\ in' = [in EXCEPT ![me][t] = PushBack(@, i)]
           /\ IF Greater(peer, me)
              THEN link' = read /\ UNCHANGED out
              ELSE DialBack(me, peer, t, read)
    /\ UNCHANGED <<started, starts>>

\* process_command_TYPE(), on a worker.
ReadType(i) ==
    /\ TypeUnread(i)
    /\ LET me == link[i].to
           peer == link[i].from
           t == link[i].type
           read == [link EXCEPT ![i].state = IF @ = "typed" THEN "open" ELSE "dead"]
       IN  /\ Contains(Sins(me)[t], peer)
           /\ in' = [in EXCEPT ![me][t] = PushBack(@, i)]
           /\ IF Greater(me, peer)
              THEN link' = read /\ UNCHANGED out
              ELSE DialBack(me, peer, t, read)
    /\ UNCHANGED <<started, starts>>

LoseType(i) ==
    /\ i \in DOMAIN link /\ link[i].state = "unread"
    /\ link' = [link EXCEPT ![i].state = "dead"]
    /\ UNCHANGED <<started, starts, out, in>>

Next ==
    \/ \E n \in Nodes : Start(n)
    \/ \E n \in Nodes : Stop(n)
    \/ \E i \in DOMAIN link : Connected(i)
    \/ \E i \in DOMAIN link : ReadType(i)
    \/ \E i \in DOMAIN link : LoseType(i)

\* Connections are set up or refused, event loops run; nodes need not start.
MaxLinks == MaxStarts * NumNodes * Len(TypeOrder) * 2
Fairness == \A i \in 1..MaxLinks : WF_vars(Connected(i)) /\ WF_vars(ReadType(i) \/ LoseType(i))

Spec == Init /\ [][Next]_vars /\ Fairness

-----------------------------------------------------------------------------
\* Every variable has its type, the arrays are within their bounds and refer
\* to connections of their node, type and direction.
TypeOK ==
    /\ started \in [Nodes -> 0..MaxStarts] /\ starts \in 0..MaxStarts
    /\ \A i \in DOMAIN link :
          /\ link[i].from \in Nodes /\ link[i].to \in Nodes /\ link[i].type \in Types
          /\ link[i].state \in {"connecting", "typed", "unread", "open", "dead"}
    /\ \A n \in Nodes, t \in Types :
          /\ Len(out[n][t]) <= MAX_NEIGHBORS /\ Len(in[n][t]) <= MAX_NEIGHBORS
          /\ \A k \in DOMAIN out[n][t] : link[out[n][t][k]].from = n /\ link[out[n][t][k]].type = t
          /\ \A k \in DOMAIN in[n][t] : link[in[n][t][k]].to = n /\ link[in[n][t][k]].type = t

HasOut(n, p, t) ==
    \E k \in DOMAIN out[n][t] : link[out[n][t][k]].to = p /\ link[out[n][t][k]].state = "open"

Full(n, t) == Len(out[n][t]) = MAX_NEIGHBORS

\* Two peers of which the smaller was up when the greater started come to have
\* a working connection each way in the arrays that commands are sent by,
\* whatever was left over from earlier starts, unless one of them stops or an
\* array is full of the dead proxies of earlier ones.  Nothing of the kind
\* holds when the smaller one starts last.
LinkedWhenSmallerFirst ==
    \A t \in Types, g, s \in Nodes :
        Greater(g, s) /\ Contains(Sins(g)[t], s) =>
            (0 < started[s] /\ started[s] < started[g]
                ~> \/ HasOut(g, s, t) /\ HasOut(s, g, t)
                   \/ ~Up(s) \/ ~Up(g) \/ Full(s, t) \/ Full(g, t))
=============================================================================
