------------------------------ MODULE JsonPatch ------------------------------
(***************************************************************************)
(* JSON pointers and what works through them in the bundled json.hpp:      *)
(* operator[], at and contains of a pointer, flatten and unflatten, patch, *)
(* diff and merge_patch.  A pointer is the sequence of its reference       *)
(* tokens, each a sequence of bytes.  An outcome has the value that is     *)
(* left, also when an exception (ok FALSE) ends the operation half-way.    *)
(* Array indices that do not fit a size_type are left out.                 *)
(***************************************************************************)
EXTENDS Integers, Sequences, SequencesExt, FiniteSetsExt, TLC

Json == INSTANCE JsonText WITH WordBits <- 8

Null == Json!Null
Array(elems) == Json!Array(elems)
Object(members) == Json!Object(members)

Slash == 47
Tilde == 126
Zero == <<48>>
Dash == <<45>>

Done(value) == [ok |-> TRUE, value |-> value]
Threw(value) == [ok |-> FALSE, value |-> value]

\* std::map is iterated in the order of its keys.
RECURSIVE Ordered(_)
Ordered(keys) ==
  LET first == CHOOSE k \in keys : \A j \in keys \ {k} : Json!Before(k, j)
  IN  IF keys = {} THEN <<>> ELSE <<first>> \o Ordered(keys \ {first})
-----------------------------------------------------------------------------
(* The text of a pointer.                                                   *)

RECURSIVE replace_substring(_, _, _)
replace_substring(s, f, t) ==
  CASE Len(s) < Len(f) -> s
    [] Len(s) >= Len(f) /\ IsPrefix(f, s) -> t \o replace_substring(SubSeq(s, Len(f) + 1, Len(s)), f, t)
    [] OTHER -> <<s[1]>> \o replace_substring(Tail(s), f, t)

\* Mutant: the slashes are escaped first, and the tildes of their escapes again.
EscapedTwice(s) ==
  replace_substring(replace_substring(s, <<Slash>>, <<Tilde, 49>>), <<Tilde>>, <<Tilde, 48>>)

escape(s) ==
  replace_substring(replace_substring(s, <<Tilde>>, <<Tilde, 48>>), <<Slash>>, <<Tilde, 49>>)
unescape(s) ==
  replace_substring(replace_substring(s, <<Tilde, 49>>, <<Slash>>), <<Tilde, 48>>, <<Tilde>>)

to_string(tokens) == FlattenSeq([i \in 1..Len(tokens) |-> <<Slash>> \o escape(tokens[i])])

\* The parts between slashes; a tilde must have 0 or 1 after it.
split(s) ==
  LET slashes == SetToSortSeq({i \in 1..Len(s) : s[i] = Slash} \cup {Len(s) + 1}, <)
      part(i) == SubSeq(s, slashes[i] + 1, slashes[i + 1] - 1)
      parts == [i \in 1..(Len(slashes) - 1) |-> part(i)]
      proper(t) == \A i \in 1..Len(t) : t[i] = Tilde => i < Len(t) /\ t[i + 1] \in {48, 49}
  IN  CASE s = <<>> -> Done(<<>>)
        [] s # <<>> /\ s[1] # Slash -> Threw(<<>>)
        [] OTHER -> IF \A i \in 1..Len(parts) : proper(parts[i])
                      THEN Done([i \in 1..Len(parts) |-> unescape(parts[i])]) ELSE Threw(<<>>)

\* The index a token stands for, -1 when an exception says that it is none.
IsDigit(c) == c \in 48..57
array_index(s) ==
  IF s = <<>> \/ (Len(s) > 1 /\ s[1] = 48) \/ \E i \in 1..Len(s) : ~IsDigit(s[i]) THEN -1
  ELSE FoldLeft(LAMBDA n, c : 10 * n + (c - 48), 0, s)

RECURSIVE Decimal(_)    \* std::to_string
Decimal(n) == (IF n < 10 THEN <<>> ELSE Decimal(n \div 10)) \o <<48 + (n % 10)>>
-----------------------------------------------------------------------------
(* Access through a pointer.                                                *)

Has(v, token) ==
  CASE v.type = "object" -> token \in DOMAIN v.members
    [] v.type = "array"  -> array_index(token) \in 0..(Len(v.elems) - 1)
    [] OTHER             -> FALSE

Child(v, token) ==
  IF v.type = "object" THEN v.members[token] ELSE v.elems[array_index(token) + 1]

\* at(ptr): throws where there is nothing.
RECURSIVE get_checked(_, _)
get_checked(v, tokens) ==
  CASE tokens = <<>> -> Done(v)
    [] tokens # <<>> /\ Has(v, Head(tokens)) -> get_checked(Child(v, Head(tokens)), Tail(tokens))
    [] OTHER -> Threw(Null)

\* contains(ptr): an empty token is no index that its checks tell apart, and
\* array_index throws.
RECURSIVE contains(_, _)
contains(v, tokens) ==
  CASE tokens = <<>> -> "yes"
    [] tokens # <<>> /\ v.type = "array" /\ Head(tokens) = <<>> -> "throws"
    [] tokens # <<>> /\ Has(v, Head(tokens)) -> contains(Child(v, Head(tokens)), Tail(tokens))
    [] OTHER -> "no"

\* operator[] of a key and of an index: the new places hold null.
Place(v, token) == IF v.type = "object" /\ token \in DOMAIN v.members THEN v.members[token] ELSE Null
Filled(elems, i) == [k \in 1..Max({i + 1, Len(elems)}) |-> IF k <= Len(elems) THEN elems[k] ELSE Null]

\* Descend along the tokens, making what is missing, and assign at the end.  With how
\* "unchecked" a "-" is the place after the last element and a null becomes an array
\* for it and for a number; with "create" a null becomes an array for 0 alone.
RECURSIVE Assign(_, _, _, _)
Assign(v, tokens, value, how) ==
  LET token == Head(tokens)
      nums == \A i \in 1..Len(token) : IsDigit(token[i])
      isArray == IF how = "create" THEN token = Zero ELSE nums \/ token = Dash
      c == IF v.type # "null" THEN v ELSE IF isArray THEN Array(<<>>) ELSE Object(<<>>)
      i == IF how = "unchecked" /\ token = Dash THEN Len(c.elems) ELSE array_index(token)
  IN  CASE tokens = <<>> -> Done(value)
        [] tokens # <<>> /\ c.type = "object" ->
             LET r == Assign(Place(c, token), Tail(tokens), value, how)
             IN  [r EXCEPT !.value = Object((token :> @) @@ c.members)]
        [] tokens # <<>> /\ c.type = "array" ->
             IF i < 0 THEN Threw(c)
             ELSE LET elems == Filled(c.elems, i)
                      r == Assign(elems[i + 1], Tail(tokens), value, how)
                  IN  [r EXCEPT !.value = Array([elems EXCEPT ![i + 1] = r.value])]
        [] OTHER -> Threw(v)

get_unchecked(v, tokens, value) == Assign(v, tokens, value, "unchecked")     \* v[ptr] = value
get_and_create(v, tokens, value) == Assign(v, tokens, value, "create")
-----------------------------------------------------------------------------
(* flatten and unflatten.                                                   *)

IsPrimitive(v) == v.type \notin {"array", "object"}

\* The values without parts, by the text of their pointers.
RECURSIVE Flattened(_, _)
Flattened(at, v) ==
  LET merged(ms) == FoldLeft(LAMBDA all, m : m @@ all, <<>>, ms)
  IN  CASE v \in {Array(<<>>), Object(<<>>)} -> at :> Null
        [] v.type = "array" /\ v # Array(<<>>) ->
             merged([i \in 1..Len(v.elems) |-> Flattened(at \o <<Slash>> \o Decimal(i - 1), v.elems[i])])
        [] v.type = "object" /\ v # Object(<<>>) ->
             LET names == Ordered(DOMAIN v.members)
             IN  merged([i \in 1..Len(names) |->
                           Flattened(at \o <<Slash>> \o escape(names[i]), v.members[names[i]])])
        [] OTHER -> at :> v

flatten(v) == Object(Flattened(<<>>, v))

unflatten(v) ==
  LET step(r, path) ==
        CASE ~r.ok -> r
          [] r.ok /\ ~IsPrimitive(v.members[path]) -> Threw(r.value)
          [] OTHER -> LET p == split(path)
                      IN  IF p.ok THEN get_and_create(r.value, p.value, v.members[path]) ELSE Threw(r.value)
  IN  IF v.type # "object" THEN Threw(Null)
      ELSE FoldLeft(step, Done(Null), Ordered(DOMAIN v.members))
-----------------------------------------------------------------------------
(* patch.  An operation is a record with the members that it has.           *)

\* v with the value at an existing place replaced.
RECURSIVE Replaced(_, _, _)
Replaced(v, tokens, value) ==
  IF tokens = <<>> THEN value
  ELSE LET w == Replaced(Child(v, Head(tokens)), Tail(tokens), value)
       IN  IF v.type = "object" THEN Object((Head(tokens) :> w) @@ v.members)
           ELSE Array([v.elems EXCEPT ![array_index(Head(tokens)) + 1] = w])

\* Below a value without parts (null apart) nothing is added, and that is no error:
\* an assertion stands there, which the Release build leaves out.
operation_add(v, tokens, value) ==
  LET parent == get_checked(v, Front(tokens))
      name == Last(tokens)
      i == IF name = Dash THEN Len(parent.value.elems) ELSE array_index(name)
      put(w) == Done(Replaced(v, Front(tokens), w))
  IN  CASE tokens = <<>>                    -> Done(value)
        [] tokens # <<>> /\ ~parent.ok      -> Threw(v)
        [] tokens # <<>> /\ parent.ok /\ parent.value.type = "null" -> put(Object(name :> value))
        [] tokens # <<>> /\ parent.ok /\ parent.value.type = "object" ->
             put(Object((name :> value) @@ parent.value.members))
        [] tokens # <<>> /\ parent.ok /\ parent.value.type = "array" ->
             IF i \notin 0..Len(parent.value.elems) THEN Threw(v)
             ELSE put(Array(InsertAt(parent.value.elems, i + 1, value)))
        [] OTHER -> Done(v)

\* Below a value without parts nothing is removed, and that is no error.
operation_remove(v, tokens) ==
  LET parent == get_checked(v, Front(tokens))
      name == Last(tokens)
      put(w) == Done(Replaced(v, Front(tokens), w))
  IN  CASE tokens = <<>>                                           -> Threw(v)
        [] tokens # <<>> /\ ~parent.ok                             -> Threw(v)
        [] tokens # <<>> /\ parent.ok /\ IsPrimitive(parent.value)  -> Done(v)
        [] OTHER ->
             CASE ~Has(parent.value, name) -> Threw(v)
               [] Has(parent.value, name) /\ parent.value.type = "object" ->
                    put(Object([k \in DOMAIN parent.value.members \ {name} |-> parent.value.members[k]]))
               [] OTHER -> put(Array(RemoveAt(parent.value.elems, array_index(name) + 1)))

Operation(v, val) ==
  LET ptr == split(val.path)
      from == split(val.from)
      has(member) == member \in DOMAIN val
      at == get_checked(v, ptr.value)
      source == get_checked(v, from.value)
      removed == operation_remove(v, from.value)
  IN  CASE ~has("op") \/ ~has("path") -> Threw(v)
        [] has("op") /\ has("path") /\ ~ptr.ok -> Threw(v)
        [] has("op") /\ has("path") /\ ptr.ok ->
             CASE val.op = "remove" -> operation_remove(v, ptr.value)
               [] val.op \in {"add", "replace", "test"} /\ ~has("value") -> Threw(v)
               [] val.op = "add" /\ has("value") -> operation_add(v, ptr.value, val.value)
               [] val.op = "replace" /\ has("value") ->
                    IF at.ok THEN Done(Replaced(v, ptr.value, val.value)) ELSE Threw(v)
               [] val.op = "test" /\ has("value") ->
                    IF at.ok /\ at.value = val.value THEN Done(v) ELSE Threw(v)
               [] val.op \in {"move", "copy"} ->
                    CASE ~has("from") -> Threw(v)
                      [] has("from") /\ (~from.ok \/ ~source.ok) -> Threw(v)
                      [] OTHER ->
                           IF val.op = "copy" THEN operation_add(v, ptr.value, source.value)
                           ELSE IF removed.ok THEN operation_add(removed.value, ptr.value, source.value)
                           ELSE Threw(v)
               [] OTHER -> Threw(v)

patch_inplace(v, patch) ==
  FoldLeft(LAMBDA r, val : IF r.ok THEN Operation(r.value, val) ELSE r, Done(v), patch)
-----------------------------------------------------------------------------
(* diff and merge_patch.                                                    *)

Replacement(path, value) == [op |-> "replace", path |-> path, value |-> value]
Removal(path) == [op |-> "remove", path |-> path]
Addition(path, value) == [op |-> "add", path |-> path, value |-> value]

RECURSIVE diff(_, _, _)
ArrayDiff(s, t, path) ==
  LET common == Min({Len(s), Len(t)})
      index(i) == path \o <<Slash>> \o Decimal(i - 1)
      more(n) == IF n > common THEN n - common ELSE 0
  IN  FlattenSeq([i \in 1..common |-> diff(s[i], t[i], index(i))])
      \o [i \in 1..more(Len(s)) |-> Removal(index(Len(s) + 1 - i))]
      \o [i \in 1..more(Len(t)) |-> Addition(path \o <<Slash>> \o Dash, t[common + i])]

ObjectDiff(s, t, path) ==
  LET place(k) == path \o <<Slash>> \o escape(k)
      mine == Ordered(DOMAIN s)
      new == Ordered(DOMAIN t \ DOMAIN s)
  IN  FlattenSeq([i \in 1..Len(mine) |->
                    IF mine[i] \in DOMAIN t THEN diff(s[mine[i]], t[mine[i]], place(mine[i]))
                    ELSE <<Removal(place(mine[i]))>>])
      \o [i \in 1..Len(new) |-> Addition(place(new[i]), t[new[i]])]

diff(s, t, path) ==
  CASE s = t -> <<>>
    [] s # t /\ (s.type # t.type \/ IsPrimitive(s)) -> <<Replacement(path, t)>>
    [] s # t /\ s.type = t.type /\ s.type = "array"  -> ArrayDiff(s.elems, t.elems, path)
    [] s # t /\ s.type = t.type /\ s.type = "object" -> ObjectDiff(s.members, t.members, path)

RECURSIVE merge_patch(_, _)
merge_patch(v, p) ==
  LET old == IF v.type = "object" THEN v.members ELSE <<>>
      kept == {k \in DOMAIN old \cup DOMAIN p.members : k \in DOMAIN p.members => p.members[k] # Null}
      was(k) == IF k \in DOMAIN old THEN old[k] ELSE Null
      now(k) == IF k \in DOMAIN p.members THEN merge_patch(was(k), p.members[k]) ELSE old[k]
  IN  IF p.type = "object" THEN Object([k \in kept |-> now(k)]) ELSE p

=============================================================================
