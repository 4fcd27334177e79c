------------------------------ MODULE Expressions ------------------------------
(* The two languages of conditions: the one of version 1 workflows              *)
(* (packages/workflow/src/expressions.ts), the one of graphs                    *)
(* (graph-engine/scope-expr.ts), and the translation of the first to the second *)
(* (emitExpression of graph-engine/compile.ts).  A source is a sequence of      *)
(* words; the space between them and their spelling are left out.               *)
EXTENDS Integers, Sequences, SequencesExt, FiniteSets

CONSTANTS
    Sources, \* the conditions that are written
    Steps,   \* ids of steps
    Vars,    \* names of variables
    Values   \* values of a variable

VARIABLE source

--------------------------------------------------------------------------------
(* Words.  "dashed" is an identifier with a dash in it, which only graphs read; *)
(* "other" is what neither reads: a lone quote, = or &.                          *)

Word(type, value) == [type |-> type, value |-> value, path |-> <<>>]
Op(value) == Word("op", value)
Open == Word("lparen", "(")
Close == Word("rparen", ")")
Eof == Word("eof", "")
Reference(path) == [type |-> "ident", value |-> "reference", path |-> path]

unreadableInV1 == {"dashed", "other"}
unreadableInGraph == {"other"}
unreadable == [v1 |-> unreadableInV1, graph |-> unreadableInGraph]

--------------------------------------------------------------------------------
(* The parsers                                                                  *)

\* A value is its type and what it is, so that values of all types compare.
Boolean(b) == <<"boolean", IF b THEN "true" ELSE "false">>
String(s) == <<"string", s>>
Undefined == <<"undefined", "">>

SyntaxError == [kind |-> "error"]
Literal(value) == [kind |-> "literal", value |-> value]
Ref(path) == [kind |-> "ref", path |-> path]
Not(operand) == [kind |-> "not", operand |-> operand]
Binary(op, left, right) == [kind |-> "binary", op |-> op, left |-> left, right |-> right]

STEP_FIELDS == {"succeeded", "failed", "skipped", "status"}

\* What version 1 takes for a reference; a graph takes any path.
parseReference(path) ==
    IF /\ "" \notin Range(path)
       /\ \/ Len(path) = 2 /\ path[1] = "vars"
          \/ Len(path) = 3 /\ path[1] = "steps" /\ path[3] \in STEP_FIELDS
          \/ Len(path) = 4 /\ path[1] = "steps" /\ path[3] = "outputs"
    THEN Ref(path) ELSE SyntaxError
referenceOf(lang, word) == IF lang = "v1" THEN parseReference(word.path) ELSE Ref(word.path)

operators == [or |-> {"||"}, and |-> {"&&"}, equality |-> {"==", "!="}]
tighter == [or |-> "and", and |-> "equality", equality |-> "unary"]

\* A parser is at a word, with the tree it has made of the words before.
At(tree, at) == [tree |-> tree, at |-> at]
Failed(parser) == parser.tree = SyntaxError

RECURSIVE parseRule(_, _, _, _)
RECURSIVE parseMore(_, _, _, _)

parsePrimary(lang, words, at) ==
    LET word == words[at]
        inner == parseRule(lang, "or", words, at + 1)
    IN  CASE word.type = "lparen" ->
                IF Failed(inner) THEN inner
                ELSE IF words[inner.at].type = "rparen" THEN At(inner.tree, inner.at + 1)
                     ELSE At(SyntaxError, inner.at)
          [] word.type \in {"string", "number"} -> At(Literal(<<word.type, word.value>>), at + 1)
          [] word.type \in {"ident", "dashed"} ->
                CASE word.value \in {"true", "false"} -> At(Literal(<<"boolean", word.value>>), at + 1)
                  [] OTHER -> At(referenceOf(lang, word), at + 1)
          [] OTHER -> At(SyntaxError, at)

parseUnary(lang, words, at) ==
    LET operand == parseRule(lang, "unary", words, at + 1)
    IN  IF words[at] # Op("!") THEN parsePrimary(lang, words, at)
        ELSE IF Failed(operand) THEN operand ELSE At(Not(operand.tree), operand.at)

\* The loop of parseOr, parseAnd and parseEquality.
parseMore(lang, rule, words, left) ==
    IF Failed(left) \/ words[left.at].type # "op" \/ words[left.at].value \notin operators[rule]
    THEN left
    ELSE LET right == parseRule(lang, tighter[rule], words, left.at + 1)
         IN  IF Failed(right) THEN right
             ELSE parseMore(lang, rule, words,
                            At(Binary(words[left.at].value, left.tree, right.tree), right.at))

parseRule(lang, rule, words, at) ==
    IF rule = "unary" THEN parseUnary(lang, words, at)
    ELSE parseMore(lang, rule, words, parseRule(lang, tighter[rule], words, at))

parse(lang, words) ==
    LET whole == parseRule(lang, "or", Append(words, Eof), 1)
    IN  IF \/ \E i \in DOMAIN words : words[i].type \in unreadable[lang]
           \/ whole.at <= Len(words)
        THEN SyntaxError ELSE whole.tree

--------------------------------------------------------------------------------
(* The evaluators.  A world is the status of each step, "none" before it has    *)
(* one, and the value of each variable, Undefined where it is not set.  A step  *)
(* that succeeds puts out one value.                                            *)

Worlds == [steps : [Steps -> {"none", "succeeded", "failed", "skipped"}], vars : [Vars -> Values]]
outputs(status) == [key \in IF status = "succeeded" THEN {"out"} ELSE {} |-> String("put out")]

falsy == {Boolean(FALSE), Undefined, <<"number", "0">>, String("")}
truthy(value) == value \notin falsy

Throws == <<"throws", "">>

\* A reference in a version 1 condition: an unknown step or variable throws.
lookup(path, world) ==
    LET status == world.steps[path[2]]
    IN  CASE path[1] = "vars" -> IF world.vars[path[2]] = Undefined THEN Throws ELSE world.vars[path[2]]
          [] path[1] = "steps" /\ status = "none" -> Throws
          [] path[1] = "steps" /\ status # "none" ->
                CASE path[3] = "outputs" ->
                        IF path[4] \in DOMAIN outputs(status) THEN outputs(status)[path[4]] ELSE Undefined
                  [] path[3] = "status" -> String(status)
                  [] OTHER -> Boolean(status = path[3])

\* The scope of a graph: a step that was skipped has no result.
member(of) == [is |-> "object", of |-> of, value |-> Undefined]
leaf(value) == [is |-> "value", of |-> <<>>, value |-> value]
resultScope(world) ==
    [s \in {s \in Steps : world.steps[s] \in {"succeeded", "failed"}} |->
        member([status    |-> leaf(String(world.steps[s])),
                succeeded |-> leaf(Boolean(world.steps[s] = "succeeded")),
                failed    |-> leaf(Boolean(world.steps[s] = "failed")),
                outputs   |-> member([key \in DOMAIN outputs(world.steps[s]) |->
                                        leaf(outputs(world.steps[s])[key])])])]
baseScope(world) ==
    member([results |-> member(resultScope(world)),
            vars    |-> member([v \in Vars |-> leaf(world.vars[v])])])

resolveRef(path, world) ==
    LET inside(current, segment) ==
            IF segment \in DOMAIN current.of THEN current.of[segment] ELSE leaf(Undefined)
        found == FoldLeft(inside, baseScope(world), path)
    IN  IF found.is = "object" THEN <<"object", "">> ELSE found.value

resolve(lang, path, world) == IF lang = "v1" THEN lookup(path, world) ELSE resolveRef(path, world)

RECURSIVE evaluate(_, _, _)

evaluate(lang, tree, world) ==
    LET left == evaluate(lang, tree.left, world)
        right == evaluate(lang, tree.right, world)
        operand == evaluate(lang, tree.operand, world)
        \* the left operand decides alone when it is `decisive`
        lazily(decisive) ==
            CASE left = Throws -> Throws
              [] left # Throws /\ truthy(left) = decisive -> Boolean(decisive)
              [] OTHER -> IF right = Throws THEN Throws ELSE Boolean(truthy(right))
    IN  CASE tree.kind = "literal" -> tree.value
          [] tree.kind = "ref" -> resolve(lang, tree.path, world)
          [] tree.kind = "not" -> IF operand = Throws THEN Throws ELSE Boolean(~truthy(operand))
          [] tree.kind = "binary" ->
                CASE tree.op = "&&" -> lazily(FALSE)
                  [] tree.op = "||" -> lazily(TRUE)
                  [] OTHER -> IF Throws \in {left, right} THEN Throws
                              ELSE Boolean((left = right) <=> tree.op = "==")

--------------------------------------------------------------------------------
(* The translation                                                              *)

result(path) == Reference(<<"results">> \o Tail(path))

RECURSIVE emitExpression(_)
emitExpression(tree) ==
    CASE tree.kind = "literal" ->
            <<IF tree.value[1] = "boolean" THEN Word("ident", tree.value[2])
              ELSE Word(tree.value[1], tree.value[2])>>
      [] tree.kind = "ref" ->
            CASE tree.path[1] = "vars" -> <<Reference(tree.path)>>
              [] tree.path[3] = "skipped" ->
                    <<Open, Op("!"), result([tree.path EXCEPT ![3] = "succeeded"]), Op("&&"),
                      Op("!"), result([tree.path EXCEPT ![3] = "failed"]), Close>>
              [] OTHER -> <<result(tree.path)>>
      [] tree.kind = "not" -> <<Op("!")>> \o emitExpression(tree.operand)
      [] tree.kind = "binary" ->
            <<Open>> \o emitExpression(tree.left) \o <<Op(tree.op)>> \o emitExpression(tree.right) \o <<Close>>

ExpressionInit == source \in Sources

--------------------------------------------------------------------------------
(* Properties                                                                   *)

\* The trees that the grammar documented in expressions.ts gives to words i..j.
RECURSIVE derived(_, _, _, _, _)
derived(lang, rule, words, i, j) ==
    CASE rule \in DOMAIN operators ->
            derived(lang, tighter[rule], words, i, j)
            \cup UNION {{Binary(words[k].value, left, right) :
                            left \in derived(lang, rule, words, i, k - 1),
                            right \in derived(lang, tighter[rule], words, k + 1, j)} :
                         k \in {k \in (i + 1)..(j - 1) :
                                 words[k].type = "op" /\ words[k].value \in operators[rule]}}
      [] rule = "unary" ->
            derived(lang, "primary", words, i, j)
            \cup (IF words[i] = Op("!") /\ i < j
                  THEN {Not(operand) : operand \in derived(lang, "unary", words, i + 1, j)} ELSE {})
      [] rule = "primary" ->
            CASE i < j -> IF words[i] = Open /\ words[j] = Close /\ i + 1 < j
                          THEN derived(lang, "or", words, i + 1, j - 1) ELSE {}
              [] i = j -> CASE words[i].type \in {"string", "number"} ->
                                  {Literal(<<words[i].type, words[i].value>>)}
                            [] words[i].type \in {"ident", "dashed"} /\ words[i].value = "reference" ->
                                  {referenceOf(lang, words[i])} \ {SyntaxError}
                            [] words[i].type = "ident" /\ words[i].value # "reference" ->
                                  {Literal(<<"boolean", words[i].value>>)}
                            [] OTHER -> {}

\* The "Grammar (lowest to highest precedence)" of expressions.ts, which both parsers
\* follow by recursive descent: a source is accepted exactly when the grammar derives
\* it, and means the one tree that it derives, operators of a level leaning left.
ParsedAsDocumented ==
    \A lang \in DOMAIN unreadable :
        (\A i \in DOMAIN source : source[i].type \notin unreadable[lang]) =>
            {parse(lang, source)} \ {SyntaxError} = derived(lang, "or", source, 1, Len(source))

\* What a graph cannot tell of a step that was skipped, which has no result there: its
\* status, and whether the fact that it did not succeed or fail equals something.
RECURSIVE ReadsSkipped(_, _)
ReadsSkipped(tree, world) ==
    LET of(t, fields) ==
            /\ t.kind = "ref" /\ t.path[1] = "steps" /\ t.path[3] \in fields
            /\ world.steps[t.path[2]] = "skipped"
    IN  \/ of(tree, {"status"})
        \/ tree.kind = "not" /\ ReadsSkipped(tree.operand, world)
        \/ /\ tree.kind = "binary"
           /\ \/ ReadsSkipped(tree.left, world) \/ ReadsSkipped(tree.right, world)
              \/ /\ tree.op \in {"==", "!="}
                 /\ of(tree.left, {"succeeded", "failed"}) \/ of(tree.right, {"succeeded", "failed"})

\* "Re-emits a v1 `when`/`condition` expression in graph scope syntax" (compile.ts): the
\* graph parses what is emitted and, but for what it cannot tell of a skipped step,
\* comes to the verdict that the version 1 engine comes to, where that does not throw.
TranslationKeepsVerdict ==
    LET tree == parse("v1", source)
        emitted == parse("graph", emitExpression(tree))
    IN  tree # SyntaxError =>
        /\ emitted # SyntaxError
        /\ \A world \in Worlds :
              LET verdict == evaluate("v1", tree, world)
              IN  verdict # Throws /\ ~ReadsSkipped(tree, world) =>
                  truthy(verdict) <=> truthy(evaluate("graph", emitted, world))
================================================================================
