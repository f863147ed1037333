-------------------------------- MODULE UdbOcl --------------------------------
(* The operclass registry: every server publishes the inventory of the operclasses *)
(* it has loaded, relays those it has committed away from where they came, and     *)
(* derives the classes all visible servers agree on.  Nothing asks for a missing   *)
(* inventory: it comes with a broadcast, or with the replay after a greeting.      *)
(*                                                                              *)
(* A class with its effective digest is one model value, so that an inventory is a *)
(* set of them, which also stands for its digest and count.  The network of servers *)
(* is a tree; SID and SQUIT stand for what the IRC daemon does about its visible    *)
(* topology.  Subscribers of the view and U-lined servers are left out.  What one   *)
(* call sends stays together on the link, as a sequence of frames.                  *)
EXTENDS Naturals, Sequences, FiniteSets, SequencesExt, Functions

CONSTANTS
    Servers,
    Links,       \* pairs of servers, a tree
    Route,       \* Route[n][o] is the neighbour through which n reaches o
    Contents,    \* the inventories a configuration may give
    First,       \* the one all servers start with
    RetiredMax,  \* UDB_OCL_MAX_RETIRED_EPOCHS
    Budget,      \* bound: rehashes, reloads, broken links, expired stages
    MaxEvents    \* bound: of all these together

VARIABLES
    nodes,       \* what each server knows
    wire,        \* what is under way on each directed link
    up,          \* the links that are up
    spent        \* bound: what happened so far

vars == <<nodes, wire, up, spent>>

Neighbours(n) == {p \in Servers : {n, p} \in Links}
Directed == {d \in Servers \X Servers : {d[1], d[2]} \in Links}

\* One way leads from each server to every other one.
Tree ==
    /\ \A n \in Servers : n \notin Neighbours(n)
    /\ \A n \in Servers : \A o \in Servers \ {n} : Route[n][o] \in Neighbours(n)
    /\ \A n \in Servers : \A p \in Neighbours(n) :
          /\ Route[n][p] = p
          /\ \A o \in Servers \ {n, p} : Route[p][o] # n => Route[n][o] = p

ASSUME OclAssumption ==
    /\ IsFiniteSet(Servers) /\ Tree
    /\ \A l \in Links : \E n, p \in Servers : l = {n, p}
    /\ \A x \in Contents : IsFiniteSet(x)
    /\ RetiredMax \in Nat \ {0} /\ First \in Contents

-----------------------------------------------------------------------------
(* Records of a server.                                                       *)

\* An inventory of instance `epoch`: e = 0 means there is none.
Inventory(e, g, x) == [e |-> e, g |-> g, x |-> x]
None == Inventory(0, 0, {})

\* What is known of a visible server, reached through dir.
Origin(dir) == [dir |-> dir, current |-> None, staging |-> None, got |-> {},
                accepted |-> None, retired |-> <<>>]

Stranger == [state |-> "none", epoch |-> 0, replayed |-> FALSE]

Blind == [ready |-> FALSE, classes |-> {}]

Send(r, p, frames) == [r EXCEPT !.out[p] = Append(@, frames)]

Confirmed(r, p) == r.peers[p].state = "confirmed"

Frame(m, o, inv, x) == [m |-> m, o |-> o, e |-> inv.e, g |-> inv.g, x |-> x]

\* BEGIN, one ITEM for each class, END.
Announce(o, inv) ==
    LET items == SetToSeq(inv.x)
    IN  <<Frame("BEGIN", o, inv, inv.x)>>
            \o [i \in DOMAIN items |-> Frame("ITEM", o, inv, items[i])]
            \o <<Frame("END", o, inv, {})>>

\* udb_ocl_send_inventory_broadcast
Broadcast(r, except, o, inv) ==
    [r EXCEPT !.out = [p \in DOMAIN @ |-> IF p # except /\ Confirmed(r, p)
                                          THEN Append(@[p], Announce(o, inv)) ELSE @[p]]]

Remembered(epochs) == IF Len(epochs) > RetiredMax THEN Tail(epochs) ELSE epochs

\* udb_ocl_retire_epoch: the last few are remembered.
Retire(o, e) ==
    IF e = 0 \/ e \in Range(o.retired) THEN o
    ELSE [o EXCEPT !.retired = Remembered(Append(@, e))]

\* udb_ocl_registry_complete
Complete(r) == r.local # None /\ \A o \in DOMAIN r.org : r.org[o].current # None

\* What every participant has with the same digest.
Common(r) == {x \in r.local.x : \A o \in DOMAIN r.org : x \in r.org[o].current.x}

Projection(r) == IF Complete(r) THEN [ready |-> TRUE, classes |-> Common(r)] ELSE Blind

\* udb_oclg_recompute
Recompute(r) == [r EXCEPT !.view = Projection(r)]

\* udb_ocl_stage_discard
Unstaged(o) == [o EXCEPT !.staging = None, !.got = {}]

Aborted(r, o) == Recompute([r EXCEPT !.org[o] = Unstaged(@)])

-----------------------------------------------------------------------------
(* Greeting.                                                                  *)

Hel(r) == [m |-> "HEL", e |-> r.epoch]
HelAck(r) == [m |-> "ACK", e |-> r.epoch]

\* udb_ocl_maybe_replay_to_peer: once for each instance of the peer.
Replay(r, p) ==
    IF ~Confirmed(r, p) \/ r.peers[p].replayed THEN r
    ELSE LET held == SetToSeq({o \in DOMAIN r.org : r.org[o].current # None})
         IN  [r EXCEPT !.peers[p].replayed = TRUE,
                       !.out[p] = Append(@, Announce(r.me, r.local))
                                    \o [i \in DOMAIN held |-> Announce(held[i], r.org[held[i]].current)]]

\* Fault: what the peer published before it was reloaded still counts.
InstanceKept(r, p) == r

\* udb_ocl_peer_instance_changed
InstanceChanged(r, p) ==
    IF p \notin DOMAIN r.org THEN r
    ELSE LET o == r.org[p]
             retired == Retire(Retire(Retire(o, o.accepted.e), o.current.e), o.staging.e)
         IN  Recompute([r EXCEPT !.org[p] = Unstaged([retired EXCEPT !.current = None])])

\* Fault: the inventories are not sent again to a new instance.
AdvertisedOnce(r, p, e) ==
    LET old == r.peers[p].epoch
        s == IF old \notin {0, e} THEN InstanceChanged(r, p) ELSE r
    IN  [s EXCEPT !.peers[p].epoch = e]

\* udb_hello_peer_advertisement
Advertised(r, p, e) ==
    LET old == r.peers[p].epoch
        s == IF old \notin {0, e}
             THEN InstanceChanged([r EXCEPT !.peers[p].replayed = FALSE], p) ELSE r
    IN  [s EXCEPT !.peers[p].epoch = e]

\* udb_sync_hello_start, for each of some peers.
Greet(r, some) ==
    LET new == {p \in some : r.peers[p].state = "none"}
    IN  [r EXCEPT !.peers = [p \in DOMAIN @ |-> IF p \in new THEN [@[p] EXCEPT !.state = "waiting"] ELSE @[p]],
                  !.out = [p \in DOMAIN @ |-> IF p \in new THEN Append(@[p], <<Hel(r)>>) ELSE @[p]]]

HearHel(r, p, f) ==
    LET s == Greet(Advertised(r, p, f.e), {p}) IN Replay(Send(s, p, <<HelAck(s)>>), p)

\* udb_sync_hello_ack
HearAck(r, p, f) ==
    LET s == Advertised(r, p, f.e)
        t == IF s.peers[p].state = "waiting" THEN [s EXCEPT !.peers[p].state = "confirmed"] ELSE s
    IN  Replay(t, p)

-----------------------------------------------------------------------------
(* Inventories.                                                               *)

\* udb_ocl_validate_frame: a visible server that is reached through this very peer.
Valid(r, p, o) == o # r.me /\ o \in DOMAIN r.org /\ r.org[o].dir = p

Same(a, b) == a.e = b.e /\ a.g = b.g

\* What BEGIN refuses to stage.
Stale(r, p, f) ==
    LET o == r.org[f.o]
    IN  \/ f.o = p /\ r.peers[p].epoch # f.e
        \/ f.e \in Range(o.retired)
        \/ /\ o.accepted.e = f.e
           /\ \/ f.g < o.accepted.g
              \/ /\ f.g = o.accepted.g
                 /\ o.accepted.x # f.x \/ Same(o.current, f) \/ Same(o.staging, f)

\* Fault: the old inventory counts until the new one is complete.
BeginBeside(r, p, f) ==
    IF ~Valid(r, p, f.o) \/ Stale(r, p, f) THEN r
    ELSE [r EXCEPT !.org[f.o].staging = Inventory(f.e, f.g, f.x), !.org[f.o].got = {},
                   !.org[f.o].accepted = Inventory(f.e, f.g, f.x)]

\* udb_ocl_handle_begin: the previous inventory stops counting at once.
HearBegin(r, p, f) ==
    IF ~Valid(r, p, f.o) \/ Stale(r, p, f) THEN r
    ELSE LET o == r.org[f.o]
             s == IF o.accepted.e # f.e THEN Retire(o, o.accepted.e) ELSE o
             t == IF o.current.e # f.e THEN Retire(s, o.current.e) ELSE s
             new == Inventory(f.e, f.g, f.x)
         IN  Recompute([r EXCEPT !.org[f.o] = [t EXCEPT !.current = None, !.accepted = new,
                                                        !.staging = new, !.got = {}]])

\* udb_ocl_handle_item
HearItem(r, p, f) ==
    IF ~Valid(r, p, f.o) \/ ~Same(r.org[f.o].staging, f) THEN r
    ELSE LET o == r.org[f.o]
         IN  IF f.x \in o.got \/ Cardinality(o.got) >= Cardinality(o.staging.x)
             THEN Aborted(r, f.o)
             ELSE [r EXCEPT !.org[f.o].got = @ \cup {f.x}]

\* Fault: the view is left as it was.
EndQuietly(r, p, f) ==
    IF ~Valid(r, p, f.o) \/ ~Same(r.org[f.o].staging, f) THEN r
    ELSE LET o == r.org[f.o]
         IN  Broadcast([r EXCEPT !.org[f.o] = Unstaged([@ EXCEPT !.current = o.staging])], p, f.o, o.staging)

\* udb_ocl_handle_end: commit as a whole, and only then relay.
HearEnd(r, p, f) ==
    IF ~Valid(r, p, f.o) \/ ~Same(r.org[f.o].staging, f) THEN r
    ELSE LET o == r.org[f.o]
         IN  IF o.accepted # o.staging \/ o.got # o.staging.x THEN Aborted(r, f.o)
             ELSE Broadcast(Recompute([r EXCEPT !.org[f.o] =
                                Unstaged([@ EXCEPT !.current = o.staging])]), p, f.o, o.staging)

\* udb_ocl_local_publish: nothing if the configuration gives the same.
Publish(r, x) ==
    IF r.local # None /\ r.local.x = x THEN r
    ELSE LET inv == Inventory(r.epoch, r.gen + 1, x)
         IN  Broadcast(Recompute([r EXCEPT !.gen = @ + 1, !.local = inv]), r.me, r.me, inv)

-----------------------------------------------------------------------------
(* The visible topology.                                                      *)

\* A frame for every other server linked here.
Others(r, p, f) ==
    [r EXCEPT !.out = [q \in DOMAIN @ |-> IF q # p THEN Append(@[q], <<f>>) ELSE @[q]]]

\* udb_hook_server_connect, for servers that appear behind p.
HearSid(r, p, f) ==
    LET new == f.s \ (DOMAIN r.org \cup {r.me})
    IN  Others(Recompute([r EXCEPT !.org = [o \in DOMAIN @ \cup new |->
                             IF o \in DOMAIN @ THEN @[o] ELSE Origin(p)]]), p, f)

\* udb_ocl_origin_quit, for all that went with a split.
HearSquit(r, p, f) ==
    Others(Recompute([r EXCEPT !.org = [o \in DOMAIN @ \ f.s |-> @[o]]]), p, f)

Sid(s) == [m |-> "SID", s |-> s]
Squit(s) == [m |-> "SQUIT", s |-> s]

\* Only the greeting is heard of a peer that has not confirmed it.
Hear(r, p, f) ==
    CASE f.m = "HEL" -> HearHel(r, p, f)
      [] f.m = "ACK" -> HearAck(r, p, f)
      [] f.m = "SID" -> HearSid(r, p, f)
      [] f.m = "SQUIT" -> HearSquit(r, p, f)
      [] f.m = "BEGIN" -> IF Confirmed(r, p) THEN HearBegin(r, p, f) ELSE r
      [] f.m = "ITEM" -> IF Confirmed(r, p) THEN HearItem(r, p, f) ELSE r
      [] f.m = "END" -> IF Confirmed(r, p) THEN HearEnd(r, p, f) ELSE r

-----------------------------------------------------------------------------
(* Steps.                                                                     *)

Silent(n) == [p \in Neighbours(n) |-> <<>>]

\* The frames of the nodes `news` are posted on `lines`, and the nodes become what they are.
Post(lines, news) ==
    /\ nodes' = [n \in Servers |-> IF n \in DOMAIN news THEN [news[n] EXCEPT !.out = Silent(n)] ELSE nodes[n]]
    /\ wire' = [d \in Directed |-> IF d[1] \in DOMAIN news /\ {d[1], d[2]} \in up'
                                   THEN lines[d] \o news[d[1]].out[d[2]] ELSE lines[d]]

One(n, r) == [k \in {n} |-> r]

Spend(what) ==
    /\ spent[what] < Budget[what] /\ FoldFunction(+, 0, spent) < MaxEvents
    /\ spent' = [spent EXCEPT ![what] = @ + 1]

\* What is left on a link when its first frame is gone.
Rest(line) ==
    IF Len(Head(line)) = 1 THEN Tail(line) ELSE <<Tail(Head(line))>> \o Tail(line)

Deliver(d) ==
    /\ wire[d] # <<>>
    /\ UNCHANGED <<up, spent>>
    /\ Post([wire EXCEPT ![d] = Rest(@)], One(d[2], Hear(nodes[d[2]], d[1], Head(Head(wire[d])))))

\* A rehash rebuilds the local inventory.
Rehash(n, x) ==
    /\ Spend("rehash") /\ x # nodes[n].local.x
    /\ UNCHANGED up
    /\ Post(wire, One(n, Publish(nodes[n], x)))

\* udb_module_load: a new instance publishes what it finds and greets who is linked.
Loaded(n, x) ==
    LET fresh == [nodes[n] EXCEPT !.epoch = @ + 1, !.gen = 0, !.local = None, !.view = Blind,
                      !.peers = [p \in Neighbours(n) |-> Stranger],
                      !.org = [o \in DOMAIN @ |-> Origin(@[o].dir)]]
    IN  Greet(Publish(fresh, x), {p \in Neighbours(n) : {n, p} \in up})

\* The module is unloaded and loaded again while the server stays linked.
Reload(n, x) ==
    /\ Spend("reload")
    /\ UNCHANGED up
    /\ Post(wire, One(n, Loaded(n, x)))

\* The stage deadline passes before END arrives.
StageExpires(n, o) ==
    /\ o \in DOMAIN nodes[n].org /\ nodes[n].org[o].staging # None
    /\ Spend("expire")
    /\ UNCHANGED up
    /\ Post(wire, One(n, Aborted(nodes[n], o)))

\* Fault: the servers behind the one that quit are still members.
LoseNearest(n, p) ==
    HearSquit([nodes[n] EXCEPT !.peers[p] = Stranger], p, Squit({p}))

\* udb_sync_server_quit on one side of a broken link.
Lose(n, p) ==
    LET r == [nodes[n] EXCEPT !.peers[p] = Stranger]
        gone == {o \in DOMAIN r.org : r.org[o].dir = p}
    IN  HearSquit(r, p, Squit(gone))

LinkBreaks(n, p) ==
    /\ {n, p} \in up /\ Spend("break")
    /\ up' = up \ {{n, p}}
    /\ Post([wire EXCEPT ![<<n, p>>] = <<>>, ![<<p, n>>] = <<>>],
            [k \in {n, p} |-> IF k = n THEN Lose(n, p) ELSE Lose(p, n)])

\* The server is introduced, the topology behind each side told, and UDB greets.
Meet(n, p) ==
    LET r == Send(nodes[n], p, <<Sid(DOMAIN nodes[n].org)>>)
    IN  Greet(HearSid(r, p, Sid({p})), {p})

LinkReturns(n, p) ==
    /\ {n, p} \in Links \ up
    /\ UNCHANGED spent
    /\ up' = up \cup {{n, p}}
    /\ Post(wire, [k \in {n, p} |-> IF k = n THEN Meet(n, p) ELSE Meet(p, n)])

-----------------------------------------------------------------------------
(* Properties.                                                                *)

OclTypeOK ==
    \A n \in Servers :
        LET r == nodes[n]
        IN  /\ DOMAIN r.org \subseteq Servers \ {n} /\ r.local.x \in Contents
            /\ \A o \in DOMAIN r.org :
                  /\ {n, r.org[o].dir} \in up
                  /\ r.org[o].got \subseteq r.org[o].staging.x
                  /\ r.org[o].staging # None => r.org[o].staging = r.org[o].accepted
                  /\ Len(r.org[o].retired) <= RetiredMax

\* The published view is what the inventories of this moment give: no path that adds,
\* replaces or drops one forgets to derive it again.
ViewExact == \A n \in Servers : nodes[n].view = Projection(nodes[n])

\* As long as a newer inventory of somebody is announced and not complete, nothing is
\* called common.
FailClosed ==
    \A n \in Servers : \A o \in DOMAIN nodes[n].org :
        nodes[n].org[o].staging # None => ~nodes[n].view.ready

\* A server never counts what a neighbour published before the instance it greeted with.
NoDeadInstance ==
    \A n \in Servers : \A p \in Neighbours(n) \cap DOMAIN nodes[n].org :
        nodes[n].org[p].current.e \in {0, nodes[n].peers[p].epoch}

\* Every server holds what every other one has published last, and all derive the same.
Agreed ==
    \A n \in Servers :
        /\ DOMAIN nodes[n].org = Servers \ {n}
        /\ \A o \in Servers \ {n} : nodes[n].org[o].current = nodes[o].local
        /\ nodes[n].view = [ready |-> TRUE,
                            classes |-> {x \in nodes[n].local.x : \A o \in Servers : x \in nodes[o].local.x}]

\* When no frame is under way the registry agrees, unless a stage expired: what was
\* dropped then is not sent again.
RestAgrees ==
    (up = Links /\ \A d \in Directed : wire[d] = <<>>) => Agreed \/ spent["expire"] > 0

-----------------------------------------------------------------------------
(* All servers are linked, have greeted each other and hold what all have published. *)

Settled(n) ==
    LET first == Inventory(1, 1, First)
    IN  [me |-> n, epoch |-> 1, gen |-> 1, local |-> first,
         view |-> [ready |-> TRUE, classes |-> First],
         peers |-> [p \in Neighbours(n) |-> [state |-> "confirmed", epoch |-> 1, replayed |-> TRUE]],
         org |-> [o \in Servers \ {n} |->
                    [Origin(Route[n][o]) EXCEPT !.current = first, !.accepted = first]],
         out |-> Silent(n)]

Init ==
    /\ nodes = [n \in Servers |-> Settled(n)]
    /\ wire = [d \in Directed |-> <<>>]
    /\ up = Links
    /\ spent = [w \in DOMAIN Budget |-> 0]

Next ==
    \/ \E d \in Directed : Deliver(d)
    \/ \E n \in Servers, x \in Contents : Rehash(n, x) \/ Reload(n, x)
    \/ \E n, o \in Servers : StageExpires(n, o)
    \/ \E d \in Directed : LinkBreaks(d[1], d[2]) \/ LinkReturns(d[1], d[2])

Spec == Init /\ [][Next]_vars
=============================================================================
