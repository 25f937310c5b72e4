------------------------------ MODULE MCLibrary ------------------------------
(***************************************************************************)
(* Small instances of the parts of the library that do not interact: the   *)
(* red-black tree, the hash table, the process locks, the output of        *)
(* chains, the two halves of the configuration, the codecs of strings, the *)
(* calendar and the cached clock (TimeSlots).  A behaviour is one of one   *)
(* of them; the others stay as they were made.                             *)
(***************************************************************************)
EXTENDS TimeSlots, RbTree, HashTable, ProcessLock, OutputChain, ConfWords, ConfObjects,
        StringCodecs, GmTime, TLC

VARIABLE part        \* the part that runs

\* Six nodes of the tree, two pairs of which have equal keys.
McNode == 1 .. 6
McKeyOf == [n \in McNode |-> {<<1, 2, 2, 3, 4, 4>>[n]}]

\* Two of the keys share a bucket of two and none shares a bucket of three.
McKeys == {<<1, 2>>, <<3, 2>>, <<2, 1>>}

\* Chains of memory and file buffers, empty ones among them, though no empty memory
\* buffer right before a file.
mem(k) == [memory |-> TRUE, joined |-> FALSE, size |-> k]
next(k) == [mem(k) EXCEPT !.joined = TRUE]
file(k) == [mem(k) EXCEPT !.memory = FALSE]
McChains == {<<>>, <<mem(3)>>, <<mem(1), file(2)>>, <<mem(2), mem(0), next(1)>>,
             <<file(0), file(1), mem(2)>>, <<mem(1), next(1), mem(1), mem(1)>>}

McWords == {<<Letter>>, <<Letter, " ">>, <<";", "#">>, <<"\"", Letter>>}
McDirectives ==
  {<< >>} \cup {<<d>> : d \in [1 .. 2 -> McWords] \cup [1 .. 3 -> McWords]}
  \cup {<<<<w, <<Letter>>>>, <<w, <<Letter>>, v>>>> : w, v \in McWords}
McLayouts ==
  [head : {<< >>, <<"#", ";", "\"", "\n">>},
   sep : {<<" ">>, <<" ", " ", "\n">>, <<" ", "\\", "\n">>},
   tail : {<<"\n">>, <<" ", "#", Letter, "\r", "\n">>}, quoted : BOOLEAN]

McArg(sort, k, unit, words, addr, port) ==
  [kind |-> sort, n |-> k, unit |-> unit, text |-> words, addr |-> addr, port |-> port]
number(k) == McArg("digits", k, "", "", "", 0)
size(k, unit) == McArg("size", k, unit, "", "", 0)
bind(addr, port) == McArg("bind", 0, "", "", addr, port)
option_of(var, att, arg) ==
  [words |-> 3, var |-> var, att |-> att, oper |-> "=", arg |-> arg]

McTypes == {<< >>, <<[obj |-> "Server", var |-> "a"]>>, <<[obj |-> "Client", var |-> "a"]>>,
            <<[obj |-> "Server", var |-> "a"], [obj |-> "Server", var |-> "b"]>>}

\* Options with numbers and sizes, right and wrong ones.
McNumbers ==
  {option_of("a", "workers", number(2)), option_of("a", "max_tqueue_len", number(1)),
   option_of("a", "max_tqueue_len", number(3)),
   option_of("b", "recv_buff_len", size(1, "KB")),
   option_of("a", "recv_buff_len", size(1, "KB")),
   option_of("a", "recv_buff_len", size(3, "KB")),
   option_of("a", "send_buff_len", size(3, "B")),
   option_of("a", "send_buff_len", size(3, "XB"))}

\* Addresses with and without conflicts, a port that is too large, a string, an operator
\* that is not taken.
McBinds ==
  {option_of("a", "bind_for_cli", bind(a, q)) : a \in {"any", "1.1", "1.12"}, q \in {1, 2}}
  \cup {option_of("a", "bind_for_cli", bind("10.0.0.0", 1)),
        option_of("a", "bind_for_cli", bind("1.12", 4)),
        option_of("a", "ns_srv", McArg("text", 0, "", "n", "", 0)),
        [option_of("a", "workers", number(2)) EXCEPT !.oper = "~"]}

McOptions == SeqOf(McNumbers, 3) \cup SeqOf(McBinds, 3)
McUnits == "B" :> 1 @@ "KB" :> 4
McPrefixOf == [a \in {"any", "1.1", "1.12", "10.0.0.0"} |->
                 IF a = "1.1" THEN {"1.1", "1.12"} ELSE {a}]

McStrings == SeqOf({0, 43, 65, 127, 200, 255}, 4)
McPoints == {128, 191, 255, 2047, 2048, 4095, 4096, 8364, 65535, 65536, 262143, 262144,
             1114111}

-----------------------------------------------------------------------------
library_vars == <<part, tree, ht_vars, pl_vars, oc_vars, cw_vars, co_vars, sc_vars, gt_vars,
                  vars>>

\* One way each to be idle.
HtIdle == ht_size = 2 /\ key = [l \in Link |-> <<1, 2>>]
PlIdle == kind = "mutex"
CwIdle == meant = << >> /\ buf = << >>
CoIdle == types = << >> /\ opts = << >>
ScIdle == codec = "uri" /\ src = << >>

OthersIdle == /\ part = "hash_table" \/ HtIdle
              /\ part = "lock" \/ PlIdle
              /\ part = "conf_words" \/ CwIdle
              /\ part = "conf_objects" \/ CoIdle
              /\ part = "codecs" \/ ScIdle

LibraryInit ==
  /\ part \in {"tree", "hash_table", "lock", "chain", "conf_words", "conf_objects", "codecs",
              "calendar", "clock"}
  /\ OthersIdle
  /\ TreeInit /\ HtInit /\ PlInit /\ OcInit /\ CwInit /\ CoInit /\ ScInit /\ GtInit
  /\ Init

TreeRun == /\ part = "tree" /\ TreeNext
           /\ UNCHANGED <<part, ht_vars, pl_vars, oc_vars, cw_vars, co_vars, sc_vars, gt_vars, vars>>
HashRun == /\ part = "hash_table" /\ HtNext
           /\ UNCHANGED <<part, tree, pl_vars, oc_vars, cw_vars, co_vars, sc_vars, gt_vars, vars>>
LockRun == /\ part = "lock" /\ PlNext
           /\ UNCHANGED <<part, tree, ht_vars, oc_vars, cw_vars, co_vars, sc_vars, gt_vars, vars>>
ChainRun == /\ part = "chain" /\ OcNext
            /\ UNCHANGED <<part, tree, ht_vars, pl_vars, cw_vars, co_vars, sc_vars, gt_vars, vars>>
WordsRun == /\ part = "conf_words" /\ CwNext
            /\ UNCHANGED <<part, tree, ht_vars, pl_vars, oc_vars, co_vars, sc_vars, gt_vars, vars>>
ObjectsRun == /\ part = "conf_objects" /\ CoNext
              /\ UNCHANGED <<part, tree, ht_vars, pl_vars, oc_vars, cw_vars, sc_vars, gt_vars, vars>>
CodecsRun == /\ part = "codecs" /\ ScNext
             /\ UNCHANGED <<part, tree, ht_vars, pl_vars, oc_vars, cw_vars, co_vars, gt_vars, vars>>
CalendarRun == /\ part = "calendar" /\ GtNext
               /\ UNCHANGED <<part, tree, ht_vars, pl_vars, oc_vars, cw_vars, co_vars, sc_vars, vars>>
ClockRun == /\ part = "clock" /\ Next
            /\ UNCHANGED <<part, tree, ht_vars, pl_vars, oc_vars, cw_vars, co_vars, sc_vars,
                           gt_vars>>

LibraryNext == TreeRun \/ HashRun \/ LockRun \/ ChainRun \/ WordsRun \/ ObjectsRun
               \/ CodecsRun \/ CalendarRun \/ ClockRun

LibrarySpec == LibraryInit /\ [][LibraryNext]_library_vars
=============================================================================
