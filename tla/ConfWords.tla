------------------------------ MODULE ConfWords ------------------------------
(***************************************************************************)
(* The reader of configuration texts, conf_parse_buf of core/dfs_conf.cpp: *)
(* one step per character it looks at.  The texts are those that write     *)
(* some directives down, in any of the layouts of Texts, and the question  *)
(* is whether the reader gets the same directives back.                    *)
(***************************************************************************)
EXTENDS Integers, SequencesExt

CONSTANTS
  Letter,        \* a character with no meaning of its own
  Directives,    \* the lists of directives that are written down
  Layouts        \* how: [head, sep, tail], and whether every word is quoted

VARIABLES
  meant,         \* the directives the text was written from
  buf,           \* the text that is read
  p,             \* the position, 1 .. Len(buf) + 1
  comment, first_quote, last_quote,
  option,        \* the word being read
  args,          \* the words of the directive being read
  arr_type,      \* the directives of two words
  arr_opts,      \* those of three or more
  outcome        \* reading, read or error

cw_vars == <<meant, buf, p, comment, first_quote, last_quote, option, args, arr_type,
             arr_opts, outcome>>

-----------------------------------------------------------------------------
\* Writing a word down: quotes are escaped, and quotes are put around it.
Escaped(w) == FlattenSeq([i \in DOMAIN w |-> IF w[i] = "\"" THEN <<"\\", "\"">>
                                             ELSE <<w[i]>>])

Written(w, quoted) ==
  IF quoted \/ \E i \in DOMAIN w : w[i] \notin {Letter, "\""}
  THEN <<"\"">> \o Escaped(w) \o <<"\"">> ELSE Escaped(w)

WrittenDirective(d, lay) ==
  FlattenSeq([i \in DOMAIN d |-> Written(d[i], lay.quoted) \o
                                 (IF i = Len(d) THEN <<";">> ELSE lay.sep)])

WrittenText(ds, lay) ==
  lay.head \o FlattenSeq([i \in DOMAIN ds |-> WrittenDirective(ds[i], lay) \o lay.tail])

CwInit ==
  /\ meant \in Directives
  /\ \E lay \in Layouts : buf = WrittenText(meant, lay)
  /\ p = 1
  /\ comment = FALSE /\ first_quote = FALSE /\ last_quote = FALSE
  /\ option = << >> /\ args = << >> /\ arr_type = << >> /\ arr_opts = << >>
  /\ outcome = "reading"

-----------------------------------------------------------------------------
Reads(chars) == outcome = "reading" /\ p <= Len(buf) /\ buf[p] \in chars

\* A character the switch sees.
Sees(chars) == Reads(chars) /\ ~comment

InQuotes == first_quote /\ ~last_quote

Refuse == /\ outcome' = "error"
          /\ UNCHANGED <<meant, buf, p, comment, first_quote, last_quote, option, args,
                         arr_type, arr_opts>>

skip ==
  /\ \/ comment /\ Reads({Letter, " ", ";", "#", "\"", "\\", "\r"})
     \/ Reads({"\r"})
  /\ p' = p + 1
  /\ UNCHANGED <<meant, buf, comment, first_quote, last_quote, option, args, arr_type,
                 arr_opts, outcome>>

normal_char ==
  /\ \/ Sees({Letter})
     \/ InQuotes /\ Sees({" ", ";", "#"})
  /\ option' = Append(option, buf[p])
  /\ p' = p + 1
  /\ UNCHANGED <<meant, buf, comment, first_quote, last_quote, args, arr_type, arr_opts,
                 outcome>>

space ==
  /\ Sees({" "}) /\ ~InQuotes
  /\ args' = IF option # << >> THEN Append(args, option) ELSE args
  /\ option' = << >> /\ first_quote' = FALSE /\ last_quote' = FALSE
  /\ p' = p + 1
  /\ UNCHANGED <<meant, buf, comment, arr_type, arr_opts, outcome>>

\* A text does not end in a backslash.  A line that is continued is not counted.
backslash ==
  /\ Sees({"\\"}) /\ p < Len(buf)
  /\ LET ch == buf[p + 1]
     IN option' = CASE ch = "\n" -> option
                    [] ch = "\"" -> Append(option, ch)
                    [] OTHER -> option \o <<"\\", ch>>
  /\ p' = p + 2
  /\ UNCHANGED <<meant, buf, comment, first_quote, last_quote, args, arr_type, arr_opts,
                 outcome>>

quote ==
  /\ Sees({"\""})
  /\ IF ~first_quote
     THEN /\ first_quote' = TRUE /\ p' = p + 1
          /\ UNCHANGED <<last_quote, outcome>>
     ELSE /\ last_quote' = TRUE
          /\ IF p = Len(buf) \/ buf[p + 1] \notin {";", " "}
             THEN outcome' = "error" /\ UNCHANGED p
             ELSE p' = p + 1 /\ UNCHANGED outcome
          /\ UNCHANGED first_quote
  /\ UNCHANGED <<meant, buf, comment, option, args, arr_type, arr_opts>>

\* Mutant of hash: a comment starts within quotes too.
hash_anywhere ==
  /\ Sees({"#"})
  /\ IF option # << >> THEN Refuse
     ELSE /\ comment' = TRUE /\ p' = p + 1
          /\ UNCHANGED <<meant, buf, first_quote, last_quote, option, args, arr_type,
                         arr_opts, outcome>>

hash ==
  /\ Sees({"#"}) /\ ~InQuotes
  /\ IF option # << >> THEN Refuse
     ELSE /\ comment' = TRUE /\ p' = p + 1
          /\ UNCHANGED <<meant, buf, first_quote, last_quote, option, args, arr_type,
                         arr_opts, outcome>>

\* The end of a line ends a comment, and the last line has to end in a semicolon.
newline ==
  /\ Reads({"\n"})
  /\ IF InQuotes \/ (p = Len(buf) /\ buf[p - 1] # ";" /\ ~comment) THEN Refuse
     ELSE /\ comment' = FALSE /\ first_quote' = FALSE /\ last_quote' = FALSE
          /\ p' = p + 1
          /\ UNCHANGED <<meant, buf, option, args, arr_type, arr_opts, outcome>>

\* The word before the semicolon counts even when it is empty; a directive has two words
\* at least.
semicolon ==
  /\ Sees({";"}) /\ ~InQuotes
  /\ LET words == Append(args, option)
     IN IF Len(words) < 2 THEN Refuse
        ELSE /\ arr_opts' = IF Len(words) >= 3 THEN Append(arr_opts, words) ELSE arr_opts
             /\ arr_type' = IF Len(words) = 2 THEN Append(arr_type, words) ELSE arr_type
             /\ args' = << >> /\ option' = << >>
             /\ first_quote' = FALSE /\ last_quote' = FALSE
             /\ p' = p + 1
             /\ UNCHANGED <<meant, buf, comment, outcome>>

text_ends ==
  /\ outcome = "reading" /\ p > Len(buf)
  /\ outcome' = IF InQuotes \/ buf = << >> THEN "error" ELSE "read"
  /\ UNCHANGED <<meant, buf, p, comment, first_quote, last_quote, option, args, arr_type,
                 arr_opts>>

CwNext == skip \/ normal_char \/ space \/ backslash \/ quote \/ hash \/ newline
          \/ semicolon \/ text_ends

CwSpec == CwInit /\ [][CwNext]_cw_vars

-----------------------------------------------------------------------------
\* Directives that are written down are read back: the same words in the same order,
\* whatever characters the quotes protect, however the words are laid out over lines and
\* whatever comments stand between the directives.
ReadsBack ==
  /\ outcome = "error" => meant = << >>
  /\ outcome = "read" =>
       /\ arr_type = SelectSeq(meant, LAMBDA d : Len(d) = 2)
       /\ arr_opts = SelectSeq(meant, LAMBDA d : Len(d) > 2)
=============================================================================
