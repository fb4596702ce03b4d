---------------------------- MODULE ShellParser ----------------------------
(***************************************************************************)
(* The parser of the shell (userland/sh.c): from a line to a tree of       *)
(* commands, by recursive descent, with strings that point into the line   *)
(* and are terminated in place at the end.                                 *)
(*                                                                         *)
(* The line is a sequence of characters: "w" (in a word), "2" (a digit, in *)
(* a word too), " ", ">", "<", "|", "&", ";".  p is struct parser: `at' is *)
(* its cursor (1 is the first character), `heap' the nodes that malloc gave *)
(* (at most `nodes' of them), `dropped' a ghost: a digit after a           *)
(* redirection was consumed and forgotten.                                 *)
(***************************************************************************)
EXTENDS Naturals, Sequences, FiniteSets, SequencesExt

CONSTANTS MAX_ARGC,
          Characters,
          MaxLine,         \* bound: characters of a line
          Memories         \* how many nodes malloc may give

VARIABLES line, nodes

parserVars == <<line, nodes>>

NULL == 0
EndOfLine == "nul"

At(i) == IF i \in 1..Len(line) THEN line[i] ELSE EndOfLine
peek(p) == At(p.at)
InWord(c) == c \in {"w", "2"}

(* consume_while: the first position from i on that is not of the set      *)
SkipTo(i, S) ==
  CHOOSE k \in i..(Len(line) + 1) : At(k) \notin S /\ \A j \in i..(k - 1) : At(j) \in S

skip_whitespaces(p) == [p EXCEPT !.at = SkipTo(@, {" "})]
parse_pathname(p) == [p EXCEPT !.at = SkipTo(@, {"w", "2"})]

Advanced(p) == [p EXCEPT !.at = @ + 1]

(* A node names its children by their places on the heap.                  *)
NodeOf(type) == [type |-> type, argv |-> <<>>, left |-> NULL, right |-> NULL,
                 fd |-> FALSE, op |-> "", path |-> <<0, 0>>]
Nodes == [type : STRING, argv : Seq(Nat \X Nat), left : Nat, right : Nat,
          fd : BOOLEAN, op : STRING, path : Nat \X Nat]
Parsers == [at : Nat, result : STRING, heap : Seq(Nodes), dropped : BOOLEAN]

(* What a function returns: the parser and the node                        *)
Results == [p : Parsers, node : Nat]
Ok(p, node) == [p |-> p, node |-> node]
Fail(p, result) == [p |-> [p EXCEPT !.result = result], node |-> NULL]

(* malloc of a node, or PARSE_NOMEM_ERROR                                  *)
Allocated(p, node) ==
  IF Len(p.heap) = nodes THEN Fail(p, "nomem")
  ELSE Ok([p EXCEPT !.heap = Append(@, node)], Len(p.heap) + 1)

-----------------------------------------------------------------------------
(* The loop of parse_execute; a word is its position and its length.       *)
Arguments[p \in Parsers, argv \in Seq(Nat \X Nat)] ==
  LET add[end \in Nat] ==
        Arguments[skip_whitespaces([p EXCEPT !.at = end]), Append(argv, <<p.at, end - p.at>>)]
  IN IF Len(argv) >= MAX_ARGC THEN Fail(p, "too_many")
     ELSE IF InWord(peek(p)) THEN add[parse_pathname(p).at]
     ELSE IF argv = <<>> THEN Fail(p, "empty")
     ELSE Allocated(p, [NodeOf("execute") EXCEPT !.argv = argv])

parse_execute(p) ==
  IF Len(p.heap) = nodes THEN Fail(p, "nomem") ELSE Arguments[p, <<>>]

(* The loop of parse_redirect: a digit is a descriptor.                    *)
Redirections[p \in Parsers, inner \in Nat] ==
  LET made[m \in Results] ==
        IF m.node = NULL THEN m ELSE Redirections[skip_whitespaces(m.p), m.node]
      named[q \in Parsers, r \in Parsers, s \in Parsers] ==
        IF s.at = r.at THEN Fail(r, "syntax")
        ELSE made[Allocated(s, [NodeOf("redirect") EXCEPT
               !.left = inner, !.fd = (q.at # p.at), !.op = peek(q),
               !.path = <<r.at, s.at - r.at>>])]
      target[q \in Parsers, r \in Parsers] == named[q, r, parse_pathname(r)]
      operator[q \in Parsers] ==
        IF peek(q) \in {">", "<"} THEN target[q, skip_whitespaces(Advanced(q))]
        ELSE Ok([q EXCEPT !.dropped = @ \/ q.at # p.at], inner)
  IN operator[IF peek(p) = "2" THEN Advanced(p) ELSE p]

parse_redirect(p) ==
  LET of[e \in Results] ==
        IF e.node = NULL THEN e ELSE Redirections[skip_whitespaces(e.p), e.node]
  IN of[parse_execute(p)]

EmptyIsError(result) == IF result = "empty" THEN "syntax" ELSE result

parse_pipe[p \in Parsers] ==
  LET joined[l \in Nat, r \in Results] ==
        IF r.node = NULL THEN Fail(r.p, EmptyIsError(r.p.result))
        ELSE Allocated(r.p, [NodeOf("pipe") EXCEPT !.left = l, !.right = r.node])
      rest[l \in Nat, q \in Parsers] ==
        IF peek(q) = "|" THEN joined[l, parse_pipe[skip_whitespaces(Advanced(q))]]
        ELSE Ok(q, l)
      of[l \in Results] ==
        IF l.node = NULL THEN l ELSE rest[l.node, skip_whitespaces(l.p)]
  IN of[parse_redirect(p)]

(* After a separator there may be nothing.                                 *)
parse_juxtaposition[p \in Parsers] ==
  LET joined[l \in Nat, r \in Results] ==
        IF r.node = NULL
        THEN Ok([r.p EXCEPT !.result = IF @ = "empty" THEN "success" ELSE @], l)
        ELSE Allocated(r.p, [NodeOf("juxtaposition") EXCEPT !.left = l, !.right = r.node])
      rest[l \in Results] ==
        IF l.node = NULL THEN l
        ELSE joined[l.node, parse_juxtaposition[skip_whitespaces(Advanced(l.p))]]
      separator[l \in Nat, q \in Parsers] ==
        CASE peek(q) = "&" -> rest[Allocated(q, [NodeOf("background") EXCEPT !.left = l])]
          [] peek(q) = ";" -> rest[Ok(q, l)]
          [] OTHER -> Ok(q, l)
      of[l \in Results] ==
        IF l.node = NULL THEN l ELSE separator[l.node, skip_whitespaces(l.p)]
  IN of[parse_pipe[p]]

parse ==
  LET whole[p \in Parsers, node \in Nat] ==
        IF peek(p) # EndOfLine THEN Fail(p, "syntax") ELSE Ok(p, node)
      of[r \in Results] == whole[skip_whitespaces(r.p), r.node]
  IN of[parse_juxtaposition[skip_whitespaces(
          [at |-> 1, result |-> "success", heap |-> <<>>, dropped |-> FALSE])]]

-----------------------------------------------------------------------------
(* null_terminate: where zeros are written                                 *)
null_terminate(heap) ==
  UNION { {heap[n].argv[i][1] + heap[n].argv[i][2] : i \in DOMAIN heap[n].argv}
            \cup (IF heap[n].type = "redirect" THEN {heap[n].path[1] + heap[n].path[2]} ELSE {})
          : n \in DOMAIN heap }

(* The string that begins at i in the line after that                      *)
StringAt(i, ends) ==
  LET end == CHOOSE k \in i..(Len(line) + 1) :
               /\ k \in ends \/ k = Len(line) + 1
               /\ \A j \in i..(k - 1) : j \notin ends
  IN SubSeq(line, i, end - 1)

Init == line = <<>> /\ nodes \in Memories
Type(c) == Len(line) < MaxLine /\ line' = Append(line, c) /\ UNCHANGED nodes
Next == \E c \in Characters : Type(c)

-----------------------------------------------------------------------------
(* The reference: the words and operators of the line, from left to right. *)

Ends(i) == InWord(At(i)) /\ ~InWord(At(i + 1))
Begin(i) == CHOOSE b \in 1..i : /\ \A k \in b..i : InWord(At(k))
                                /\ b = 1 \/ ~InWord(At(b - 1))
Lexemes ==
  LET ends == SelectSeq([i \in 1..Len(line) |-> i],
                        LAMBDA i : Ends(i) \/ ~(InWord(At(i)) \/ At(i) = " "))
  IN [n \in DOMAIN ends |->
        IF Ends(ends[n]) THEN [word |-> TRUE, text |-> SubSeq(line, Begin(ends[n]), ends[n]),
                               glued |-> At(ends[n] + 1) \in {">", "<"}]
        ELSE [word |-> FALSE, text |-> <<At(ends[n])>>, glued |-> FALSE]]

IsOp(l, S) == ~l.word /\ l.text[1] \in S

(* A word after the name of a redirection is the descriptor of another one. *)
AfterTarget(ls, i) == i > 2 /\ ls[i - 1].word /\ IsOp(ls[i - 2], {">", "<"})
Descriptor(ls, i) == ls[i].text = <<"2">> /\ ls[i].glued /\ AfterTarget(ls, i)

(* Each operator has its operands; ";" and "&" may end the line.           *)
WellFormed(ls) ==
  /\ ls # <<>> /\ ls[1].word
  /\ \A i \in DOMAIN ls :
       /\ IsOp(ls[i], {">", "<", "|"}) => i < Len(ls) /\ ls[i + 1].word
       /\ IsOp(ls[i], {";", "&"}) /\ i < Len(ls) => ls[i + 1].word
       /\ ls[i].word /\ AfterTarget(ls, i) => Descriptor(ls, i)

(* Fewer than MAX_ARGC words in a row                                      *)
FewArguments(ls) ==
  \A i \in DOMAIN ls : i + MAX_ARGC - 1 <= Len(ls) =>
    \E k \in i..(i + MAX_ARGC - 1) : ~ls[k].word

Flatten[n \in Nat, heap \in Seq(Nodes), ends \in SUBSET Nat] ==
  LET x == heap[n]
      left == Flatten[x.left, heap, ends]
      right == Flatten[x.right, heap, ends]
  IN CASE x.type = "execute" -> [i \in DOMAIN x.argv |-> StringAt(x.argv[i][1], ends)]
       [] x.type = "redirect" -> left \o (IF x.fd THEN << <<"2">> >> ELSE <<>>)
                                   \o << <<x.op>>, StringAt(x.path[1], ends) >>
       [] x.type = "background" -> Append(left, <<"&">>)
       [] x.type = "pipe" -> left \o << <<"|">> >> \o right
       [] heap[x.left].type = "background" -> left \o right
       [] OTHER -> left \o << <<";">> >> \o right

WithoutLastSemicolon(texts) ==
  IF texts # <<>> /\ texts[Len(texts)] = <<";">> THEN Front(texts) ELSE texts

(* The parser accepts exactly the lines whose operators have their         *)
(* operands, and the tree it builds, with the strings cut out in place by  *)
(* null_terminate, holds the line's words and operators in their order;    *)
(* except that a digit after a redirection is consumed and forgotten when  *)
(* no other redirection follows (parse_redirect), and unless memory ran    *)
(* out.  In every case success comes with a tree, as parse_and_run         *)
(* asserts.                                                                *)
ParsesTheLine ==
  \A r \in {parse}, ls \in {Lexemes} :
    /\ r.p.result = "success" => r.node # NULL
    /\ Len(r.p.heap) < nodes /\ ~r.p.dropped =>
         /\ r.p.result = "success" <=> WellFormed(ls) /\ FewArguments(ls)
         /\ r.p.result = "empty" <=> ls = <<>>
         /\ r.p.result = "success" =>
              Flatten[r.node, r.p.heap, null_terminate(r.p.heap)] =
                WithoutLastSemicolon([i \in DOMAIN ls |-> ls[i].text])
=============================================================================
