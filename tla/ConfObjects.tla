----------------------------- MODULE ConfObjects -----------------------------
(***************************************************************************)
(* What becomes of the directives of a configuration: conf_parse_type and  *)
(* conf_parse_option of core/dfs_conf.cpp, the value parsers of            *)
(* core/dfs_conf_base.cpp that the Server object of dn_conf.cpp names, the *)
(* defaults, and the lookup of the Server by dn_cycle_init.  The types are *)
(* parsed first, then the options in their order.                          *)
(***************************************************************************)
EXTENDS Integers, SequencesExt

CONSTANTS
  Types,         \* lists of directives of two words: obj, var
  Options,       \* lists of directives of three or more: words, var, att, oper, arg
  Word32,        \* 2^32
  Units,         \* a function from the units of sizes to what they stand for
  HasZeros,      \* the addresses whose text contains 0.0.0.0
  PrefixOf,      \* PrefixOf[a]: the addresses whose text starts with a's
  MaxPort        \* 65535

Directive == [words : Nat, var : STRING, att : STRING, oper : STRING,
              arg : [kind : STRING, n : Nat, unit : STRING, text : STRING, addr : STRING,
                     port : Nat]]

\* What the words of a directive stand for; "any" is the text 0.0.0.0.  Sizes and numbers
\* are read without a sign.
ASSUME ConfAssumption ==
  /\ \A q \in Types : q \in Seq([obj : STRING, var : STRING])
  /\ \A q \in Options :
       /\ q \in Seq(Directive)
       /\ \A i \in DOMAIN q : q[i].att = "bind_for_cli" => q[i].arg.addr \in DOMAIN PrefixOf
  /\ Word32 \in Nat \ {0} /\ MaxPort \in Nat
  /\ \A u \in DOMAIN Units : Units[u] \in Nat
  /\ "any" \in HasZeros
  /\ \A a \in DOMAIN PrefixOf : a \in PrefixOf[a]

VARIABLES
  types, opts,   \* arr_type and arr_opts, what is left of them
  vobjects,      \* ctx->conf_objects_array: name and conf of each object
  given,         \* the options parsed so far
  result,        \* types, options, defaults, parsed, or error
  sconf          \* cycle->sconf: the index of the Server's object, 0 for none

co_vars == <<types, opts, vobjects, given, result, sconf>>

NotSet == 0

conf_server_init == [workers |-> 0, recv_buff_len |-> NotSet, send_buff_len |-> NotSet,
                     max_tqueue_len |-> NotSet, ns_srv |-> "", bind_for_cli |-> << >>]

CoInit == /\ types \in Types /\ opts \in Options
          /\ vobjects = << >> /\ given = << >> /\ result = "types" /\ sconf = 0

Fail == result' = "error" /\ UNCHANGED <<types, opts, vobjects, given, sconf>>

\* The object is new each time, though its name may be taken.
conf_parse_type ==
  /\ result = "types" /\ types # << >>
  /\ LET d == Head(types)
     IN IF d.obj # "Server" THEN Fail
        ELSE /\ vobjects' = Append(vobjects, [name |-> d.var, conf |-> conf_server_init])
             /\ types' = Tail(types)
             /\ UNCHANGED <<opts, given, result, sconf>>

types_done == /\ result = "types" /\ types = << >>
              /\ result' = "options"
              /\ UNCHANGED <<types, opts, vobjects, given, sconf>>

\* Mutant of bind_ipv4_str_cmp: an address in the file that is the wildcard is missed.
bind_ipv4_str_cmp_new(b, arg) ==
  /\ arg.port = b.port
  /\ b.addr = "any" \/ arg.addr \in PrefixOf[b.addr]

bind_ipv4_str_cmp(b, arg) ==
  /\ arg.port = b.port
  /\ b.addr = "any" \/ arg.addr \in HasZeros \/ arg.addr \in PrefixOf[b.addr]

\* The value parsers: the Server's record after the directive, in a set of one, or nothing
\* when the parser returns NGX_ERROR.
conf_parse_int(c, att, arg) == IF arg.kind = "digits" THEN {[c EXCEPT ![att] = arg.n]} ELSE {}

\* A string is set once.
conf_parse_string(c, arg) == IF c.ns_srv = "" THEN {[c EXCEPT !.ns_srv = arg.text]} ELSE {}

FieldAfter(att) == IF att = "recv_buff_len" THEN "send_buff_len" ELSE "max_tqueue_len"

\* The parser stores 64 bits, the field has 32: the field after it gets the upper half.
conf_parse_bytes_size(c, att, arg) ==
  LET b_size == arg.n * Units[arg.unit]
  IN IF arg.unit \in DOMAIN Units
     THEN {[c EXCEPT ![att] = b_size % Word32,
                     ![FieldAfter(att)] = (b_size \div Word32) % Word32]}
     ELSE {}

conf_parse_bind(c, arg) ==
  IF \/ \E i \in DOMAIN c.bind_for_cli : bind_ipv4_str_cmp(c.bind_for_cli[i], arg)
     \/ arg.port \notin 1 .. MaxPort
  THEN {}
  ELSE {[c EXCEPT !.bind_for_cli = Append(@, [addr |-> arg.addr, port |-> arg.port])]}

handler(c, d) ==
  CASE d.att \in {"workers", "max_tqueue_len"} -> conf_parse_int(c, d.att, d.arg)
    [] d.att \in {"recv_buff_len", "send_buff_len"} -> conf_parse_bytes_size(c, d.att, d.arg)
    [] d.att = "ns_srv" -> conf_parse_string(c, d.arg)
    [] d.att = "bind_for_cli" -> conf_parse_bind(c, d.arg)

\* conf_get_vobject: the first object of the name.
conf_get_vobject(name) == SelectInSeq(vobjects, LAMBDA v : v.name = name)

conf_parse_option ==
  /\ result = "options" /\ opts # << >>
  /\ LET d == Head(opts)
         v == conf_get_vobject(d.var)
     IN IF v = 0 \/ d.words # 3 \/ d.oper # "=" \/ d.att \notin DOMAIN conf_server_init
        THEN Fail
        ELSE LET after == handler(vobjects[v].conf, d)
             IN IF after = {} THEN Fail
                ELSE /\ \E c \in after : vobjects' = [vobjects EXCEPT ![v].conf = c]
                     /\ given' = Append(given, d)
                     /\ opts' = Tail(opts)
                     /\ UNCHANGED <<types, result, sconf>>

options_done == /\ result = "options" /\ opts = << >>
                /\ result' = "defaults"
                /\ UNCHANGED <<types, opts, vobjects, given, sconf>>

\* conf_server_make_default is handed the object and not its conf: what it sets lies
\* behind the objects, and every conf stays as it was.  The Server is then the first
\* object there is.
conf_make_objects_default ==
  /\ result = "defaults"
  /\ IF vobjects = << >> THEN result' = "error" /\ UNCHANGED sconf
     ELSE result' = "parsed" /\ sconf' = 1
  /\ UNCHANGED <<types, opts, vobjects, given>>

CoNext == conf_parse_type \/ types_done \/ conf_parse_option \/ options_done
          \/ conf_make_objects_default

CoSpec == CoInit /\ [][CoNext]_co_vars

-----------------------------------------------------------------------------
\* No two listening addresses of an accepted Server get in each other's way: on a port
\* there is one address, or several that differ and no wildcard among them.
BindsCompatible ==
  \A v \in DOMAIN vobjects :
    LET b == vobjects[v].conf.bind_for_cli
    IN \A i, j \in DOMAIN b :
         i # j /\ b[i].port = b[j].port =>
           b[i].addr # b[j].addr /\ "any" \notin {b[i].addr, b[j].addr}

Scalar == {"workers", "recv_buff_len", "send_buff_len", "max_tqueue_len"}

ValueOf(d) == IF d.att \in {"recv_buff_len", "send_buff_len"} THEN d.arg.n * Units[d.arg.unit]
              ELSE d.arg.n

\* Directive j of the options undoes directive i: it is a size, of the field before.
Undoes(i, j) == /\ given[j].att \in {"recv_buff_len", "send_buff_len"}
                /\ FieldAfter(given[j].att) = given[i].att

\* An option keeps the value its last directive for the object gave it, as long as the
\* value fits 32 bits and no size of the field before comes after it.
OptionsKept ==
  \A i \in DOMAIN given :
    /\ given[i].att \in Scalar
    /\ ValueOf(given[i]) < Word32
    /\ \A j \in i + 1 .. Len(given) :
         given[j].var = given[i].var => given[j].att # given[i].att /\ ~Undoes(i, j)
    => vobjects[conf_get_vobject(given[i].var)].conf[given[i].att] = ValueOf(given[i])

\* What an accepted configuration leaves in the Server is what it says: every option as
\* given, and addresses that can be bound together.
OptionsSound == BindsCompatible /\ OptionsKept

\* Once a configuration is parsed, the Server has a length for its buffers and for its
\* task queue: dn_cycle_init takes parsing to include the defaults.
DefaultsMade ==
  result = "parsed" => vobjects[sconf].conf.max_tqueue_len # NotSet
=============================================================================
