-------------------------------- MODULE Json --------------------------------
(***************************************************************************)
(* The JSON reader and writer of src/src/util/json.cpp, through which every *)
(* message of the pool and every answer of the API goes: the recursive      *)
(* descent with its depth counter and Json::set().                          *)
(*                                                                          *)
(* Abstractions.  A text is a sequence of tokens: brackets, commas, colons, *)
(* two strings, which may be keys, and one other scalar; numbers, literals  *)
(* and white space are not looked into.                                     *)
(***************************************************************************)
EXTENDS Integers, Sequences, SequencesExt, FiniteSetsExt

CONSTANT MaxDepth      \* kMaxDepth, 64

ASSUME DepthAssumption == MaxDepth \in Nat \ {0}

Keys    == {"a", "b"}
Scalars == Keys \cup {"null"}
Tokens  == Scalars \cup {"[", "]", "{", "}", ",", ":"}

(* A Json value; the members of an object are in the order of keyOrder_.    *)
Scalar(token)   == [kind |-> "scalar", token |-> token]
Array(items)    == [kind |-> "array", items |-> items]
Object(members) == [kind |-> "object", members |-> members]
Member(key, value) == [key |-> key, value |-> value]

(* Json::set(): a key that is there keeps its place and gets the value.     *)
Put(members, member) ==
    LET same == {i \in DOMAIN members : members[i].key = member.key}
    IN  IF same = {} THEN Append(members, member)
        ELSE [i \in DOMAIN members |-> IF i \in same THEN member ELSE members[i]]

-----------------------------------------------------------------------------
(* The parser: "at" is its pos and its depth, and a result is where it is   *)
(* then and what it has read, or a failure.                                 *)

Failed == [ok |-> FALSE]
Read(at, value) == [ok |-> TRUE, at |-> at, value |-> value]

Sees(text, at, token) == at.pos <= Len(text) /\ text[at.pos] = token
Skip(at)  == [at EXCEPT !.pos = @ + 1]
Enter(at) == [pos |-> at.pos + 1, depth |-> at.depth + 1]

(* Wrong form: the depth counts the containers, not how deep they are.      *)
LeaveDeep(at) == [pos |-> at.pos + 1, depth |-> at.depth]
Leave(at) == [pos |-> at.pos + 1, depth |-> at.depth - 1]

RECURSIVE ParseValue(_, _), ParseElements(_, _, _), ParseMembers(_, _, _)

(* parseValue(), with the beginnings of parseArray() and parseObject().     *)
ParseValue(text, at) ==
    LET inside == Enter(at)
    IN  IF at.depth >= MaxDepth \/ at.pos > Len(text) THEN Failed
        ELSE IF Sees(text, at, "[")
          THEN IF Sees(text, inside, "]") THEN Read(Leave(inside), Array(<<>>))
               ELSE ParseElements(text, inside, <<>>)
        ELSE IF Sees(text, at, "{")
          THEN IF Sees(text, inside, "}") THEN Read(Leave(inside), Object(<<>>))
               ELSE ParseMembers(text, inside, <<>>)
        ELSE IF text[at.pos] \in Scalars THEN Read(Skip(at), Scalar(text[at.pos]))
        ELSE Failed

(* The loop of parseArray().                                                *)
ParseElements(text, at, items) ==
    LET element == ParseValue(text, at)
    IN  IF ~element.ok THEN Failed
        ELSE LET all == Append(items, element.value)
             IN  IF Sees(text, element.at, ",") THEN ParseElements(text, Skip(element.at), all)
                 ELSE IF Sees(text, element.at, "]") THEN Read(Leave(element.at), Array(all))
                 ELSE Failed

(* The loop of parseObject().                                               *)
ParseMembers(text, at, members) ==
    IF at.pos > Len(text) \/ ~Sees(text, Skip(at), ":") THEN Failed
    ELSE IF text[at.pos] \notin Keys THEN Failed
    ELSE LET value == ParseValue(text, Skip(Skip(at)))
         IN  IF ~value.ok THEN Failed
             ELSE LET all == Put(members, Member(text[at.pos], value.value))
                  IN  IF Sees(text, value.at, ",") THEN ParseMembers(text, Skip(value.at), all)
                      ELSE IF Sees(text, value.at, "}") THEN Read(Leave(value.at), Object(all))
                      ELSE Failed

(* Json::parse(): one value, and nothing after it.                          *)
Parse(text) ==
    LET value == ParseValue(text, [pos |-> 1, depth |-> 0])
    IN  IF value.ok /\ value.at.pos = Len(text) + 1 THEN value ELSE Failed

(* Json::dump(), without indentation.                                       *)
Separated(texts) ==
    FoldLeft(LAMBDA all, text : IF all = <<>> THEN text ELSE all \o <<",">> \o text, <<>>, texts)

RECURSIVE Dump(_)
Dump(value) ==
    CASE value.kind = "scalar" -> <<value.token>>
      [] value.kind = "array"  ->
           <<"[">> \o Separated([i \in DOMAIN value.items |-> Dump(value.items[i])]) \o <<"]">>
      [] value.kind = "object" ->
           <<"{">> \o Separated([i \in DOMAIN value.members |->
                        <<value.members[i].key, ":">> \o Dump(value.members[i].value)])
             \o <<"}">>

-----------------------------------------------------------------------------
(* What a text means, from its tree alone: a tree is a value whose objects  *)
(* may name a key twice.                                                    *)

Children(tree) ==
    CASE tree.kind = "scalar" -> <<>>
      [] tree.kind = "array"  -> tree.items
      [] tree.kind = "object" -> [i \in DOMAIN tree.members |-> tree.members[i].value]

RECURSIVE Nesting(_), Meaning(_)
Nesting(tree) ==
    LET below == Children(tree)
    IN  IF below = <<>> THEN 0 ELSE 1 + Max({Nesting(below[i]) : i \in DOMAIN below})

(* A key means what is said of it last, where it is named first.            *)
Meaning(tree) ==
    CASE tree.kind = "scalar" -> tree
      [] tree.kind = "array"  -> Array([i \in DOMAIN tree.items |-> Meaning(tree.items[i])])
      [] tree.kind = "object" ->
           LET members == tree.members
               Of(key) == {i \in DOMAIN members : members[i].key = key}
               firsts  == SetToSortSeq({Min(Of(key)) : key \in {k \in Keys : Of(k) # {}}}, <)
           IN  Object([n \in DOMAIN firsts |->
                 LET key == members[firsts[n]].key
                 IN  Member(key, Meaning(members[Max(Of(key))].value))])

(* A text of the grammar is accepted exactly if none of its values stands   *)
(* in MaxDepth containers, however many containers it has side by side; it  *)
(* is read as what it means, and written and read again it is the same.     *)
ReadsTheTree(tree) ==
    LET read == Parse(Dump(tree))
    IN  /\ read.ok <=> Nesting(tree) < MaxDepth
        /\ read.ok => /\ read.value = Meaning(tree)
                      /\ Parse(Dump(read.value)).value = read.value

(* No other text is accepted.                                               *)
ReadsOnlyTrees(text, texts) == Parse(text).ok => text \in texts
=============================================================================
