# kbgdb in TLA+

kbgdb is a small logic engine in C++: facts and Horn rules in memory, queries
answered by depth-first resolution, a text parser, a REPL, and an unfinished HTTP
front end. This directory specifies it in TLA+, from the unifier to the callbacks of
the front end, checks it with TLC on small instances, and proves the properties that
matter most with TLAPS. Paths below are relative to `src/` of the repository, lines
without a file are in `src/core/knowledge_base.cpp`.

Contents: [Inventory](#inventory) · [How the parts interact](#how-the-parts-interact) ·
[Modules](#modules) · [Correspondence](#correspondence-to-the-code) ·
[Runs](#runs-and-bounds) · [Fairness](#fairness) · [Findings](#findings) ·
[Proofs](#proofs) · [Not modelled](#what-is-not-modelled) · [Plan](#plan)

## Inventory

| Component | Source | State | Operations | What makes it correct |
|---|---|---|---|---|
| Terms, facts, binding sets | `src/common/fact.{h,cpp}` | none (values) | constructors, type tests, `BindingSet::add/getTerm`, `toString` | printing tells goals apart; what is printed can be read back |
| Unifier | `src/core/knowledge_base.cpp` 18-276 | the binding set threaded through the recursion | `unify`, `unifyTerms`, `unifyImpl`, `unifyVariable`, `occursCheck`, `resolveTerm`, `substitute` | most general unifiers, `nullopt` only when there is none, bindings never cyclic and never overwritten, every call returns |
| KnowledgeBase, store and evaluator | `src/core/knowledge_base.{h,cpp}` 282-316, 425-657, `src/core/rule.{h,cpp}` | `facts_`, `rules_`, the static `varCounter`; per query the visited set and the C++ activations | `addFact`, `addRule`, `query`, `evaluateGoal`, `evaluateConjunction`, `renameVariables` | answers are consequences of the clauses and all of them; the recursion guard is exact; no variable of a rule is captured; queries return |
| KnowledgeBase, loading | `src/core/knowledge_base.cpp` 282-423 | the position in the file, the parser's mode; the clauses stored so far | the constructor, `loadFromFile`, `query` on a text | what is stored is what was written, once for each time it was read; an error leaves exactly the clauses before it |
| QueryParser | `src/query/query_parser.{h,cpp}` | `ruleMode_`, `tokens_`, `current_`, the activations | `setRuleMode`, `parse`, `parseTerm`, `tokenize` | accepts the language of its class comment and returns what the text spells |
| QueryEngine, simple_query | `src/query/query_engine.{h,cpp}`, `examples/simple_query.cpp` | a shared pointer to a knowledge base; the exit code | `execute`, `toJSON`; load, ask, print, exit | an exception becomes an error result; results come from the whole file or not at all |
| REPL | `examples/repl.cpp` | a knowledge base, one parser, an engine on a copy | the commands `load`, `assert`, `rule`, `?-`, `facts`, `rules`, `help`, `quit` | what is printed is true of what was typed; a command that fails leaves nothing behind |
| HTTP server | `src/http/server.{h,cpp}` | a `ConnectionHandler` per connection, its buffer, the writes and queries under way | `readDataAvailable`, `handleQuery`, the continuation, `writeSuccess`, `writeErr`, `readEOF`, `readErr` | one right answer per request, in order; the handler is not used after it deleted itself |
| HTTP request handler | `src/http/handler.{h,cpp}` | the chunks of a body, whether the handler is still there | `onRequest`, `onBody`, `onEOM`, `requestComplete`, `onError` | as above |
| service | `examples/service.cpp` | - | starts the server | - |
| Storage providers | `src/storage/*` | none | `getFacts` (a stub) | - |

Which behaviours are hard:

* **Long legal sequences.** A query is thousands of unifications over one growing
  binding set. A binding that closes a cycle, replaces another, or is used without
  following its chain to the end, shows only several unifications later.
* **Recursion with shared mutable state.** The visited set is passed by reference
  through the whole evaluation, while binding sets are copied at each branch;
  `varCounter` is a static local that outlives the query.
* **Cutting off.** A goal that is already under evaluation returns no result. This
  must end cyclic programs and yet lose no answer, whatever the order of the clauses.
* **Termination.** Nothing but the visited set and the occurs check bounds any of the
  recursions.
* **Ordering** within the parser: nested calls share one position in the tokens.
* **Failure half way.** `loadFromFile` stores clauses as it reads them and throws at the
  first line it cannot parse; the constructor throws with it; the REPL catches and goes on.
* **Concurrency and deletion** exist only in the HTTP front end, which no build file
  compiles: queries run on an executor while the socket's callbacks may delete the handler
  that their continuations have captured.

`PROJECT.json` lists the hazards line by line with the properties that cover them.

## How the parts interact

    Server / ConnectionHandler, QueryHandler       (executor, socket, proxygen)
         |  query(text), a future
         v
    REPL, simple_query, tests --lines, texts--> loadFromFile / query(text)
                                                  |  split, trim, QueryParser (ruleMode_)
                                                  v
                     addFact, addRule, query(Fact) --> facts_, rules_
                                                  |
         evaluateGoal <----------> evaluateConjunction         (mutual recursion)
             |  for every fact with the predicate: unify(goal, fact, bindings)
             |  for every rule with the predicate: renameVariables, unify(goal, head, bindings)
             v
         Unifier (pure: takes a binding set, returns a new one or nullopt)

All calls are synchronous and, in everything that is built, made from one thread.
The interactions that matter are therefore nested calls: what an activation holds
while the ones below it run, and what they change under it. The models make every
activation a frame of an explicit stack, so that each state between two calls is a
state of the model.

Each arrow is a composition of modules. `Loader` EXTENDS `KnowledgeBase` and drives it
with what `ParserOps` makes of texts; `Repl` and `SimpleQuery` EXTEND `Loader`;
`Unification` is tied to the recursion that the evaluator runs with (`AgreesWithRecursion`),
and the parser's step machine to the one the loader runs with (`AgreesWithFunction`). The
HTTP modules stand alone: what a query computes is not seen there, only that it ends.

## Modules

| Module | What it is |
|---|---|
| `Terms` | terms, literals and binding sets as data; the tests of `unifyImpl` |
| `UnifierSteps` | what one activation of `unifyImpl` does before it calls or returns, over any set of terms; a call as what such steps lead to (`UnifyReturns`) |
| `Interpretations` | what unification is about: trees that terms denote, solutions, acyclic bindings, replacing variables |
| `UnifierProofs` | theorems about the steps and about whole calls |
| `Unification` | the steps run as a machine, call after call on the caller's bindings; its properties |
| `ConstraintStore` | the abstract specification of a unifier: a set of possible worlds that questions shrink |
| `UnificationRefinement` | the refinement mapping from `Unification` to `ConstraintStore` |
| `UnificationProofs` | theorems about the machine, its refinement, and that it returns what `UnifyReturns` says |
| `MCUnification` | an instance with eleven terms, the interpretations over them, and the recursion of `TermOps` beside the step machine |
| `TermOps` | the pure algorithms as recursions: unify, resolve, substitute, print, rename, answer |
| `KnowledgeBase` | the clause store and the evaluator; unification, printing and renaming are parameters |
| `Scoping` | what renaming and the recursion guard are for: no capture, only repetitions cut off |
| `KnowledgeBaseProofs` | theorems about both, for any such parameters; and for `Unify` and `Rename` over the terms of `UnifierSteps` |
| `Consequence`, `ConsequenceProofs` | soundness of the evaluator in every world, its inductive invariant, and the proof |
| `Completeness`, `CompletenessProofs` | completeness of the evaluator for every derivation, its inductive invariant, and the proof |
| `LogicDatabase` | the abstract specification of a knowledge base: a set of facts and a set of rules that answer a question in one step, soundly and completely |
| `DatabaseRefinement` | the refinement mapping from `KnowledgeBase` to `LogicDatabase` |
| `Herbrand`, `QueryMeaning` | the least model of a program; soundness and completeness of answers with respect to it |
| `MCQuery`, `MCLists`, `MCScenarios` | programs over graphs, the list programs of the tests, all of them side by side |
| `MCHypotheses`, `MCConsequence` | the hypotheses of the theorems, evaluated for the code's unifier, renaming and keys; worlds and derivations for the programs over graphs |
| `Lexer` | words, punctuation, blanks, and what `addToken` makes of a word |
| `Parser` | `QueryParser` as a step machine that reads one token at a time |
| `ParserProofs` | theorems about it, for inputs of any length: it ends, and accepts exactly the grammar |
| `ParserOps` | `QueryParser::parse` as the recursion it is, for the loader |
| `Grammar` | the language itself, by length and without a parser |
| `Printer`, `MCParser` | the tokens of `toString`; all short inputs |
| `Loader` | `loadFromFile` and `query` on a text, over `KnowledgeBase` |
| `LoaderRefinement` | `Loader` is `KnowledgeBase` with a client |
| `Repl`, `SimpleQuery` | the two programs, over `Loader` |
| `ClientProofs` | theorems about the three, and the refinement of `LogicDatabase` for all who use a knowledge base |
| `MCLoader`, `MCBodies`, `MCPrograms` | files in many layouts and what they say; all short rule bodies; the clients of the text interface side by side |
| `Connection`, `Handler`, `MCHttp` | `Server::ConnectionHandler`, `QueryHandler`; both side by side |
| `HttpProofs` | theorems about the two |

The evaluator is split from the term algorithms on purpose. `KnowledgeBase` declares
`Unify`, `KeyOf`, `Rename`, `Advance` and `Answer` as constant operators: its proofs
hold whatever they compute, and the recursive definitions, which the provers cannot
work with, stay in `TermOps`, which only TLC sees. For the same reason `Loader` takes the
parser as a parameter, `ParseFact`. Unification and the parser exist twice, as steps (which are proved about) and as a
recursion (which the evaluator and the loader run with in TLC's instances);
`AgreesWithRecursion` and `AgreesWithFunction` tie them together. Where the theorems on the
evaluator need to know what `Unify` computes, they take it to return what the steps lead to.

Operators whose comment begins with "A mutant" are variants with a plausible bug.
Nothing uses them; they are there to be put in place of the definition that follows
them, and each breaks the property named beside it in `PROJECT.json`.

## Correspondence to the code

**UnifierSteps, Unification.** The pairs that the recursion of `unifyImpl` has still to visit
are a sequence, leftmost first, and with it goes the binding set that it threads through. One
step is what one activation does before it calls or returns; `UnifierSteps` has the steps as
relations between such configurations, and `Unification` runs them on its variables `pending`
and `bindings`, with an action for each (`Matches` for `Match`, and so on):

| Step | Code |
|---|---|
| `Call` | `unify`, the head of `unifyTerms` (predicate and arity) |
| `Match` | the first test of `unifyImpl` (identical atoms, variables, empty lists) |
| `FollowVar`, `FollowOther` | `unifyVariable` on a bound variable, on either side |
| `FailOccurs`, `Bind` | the occurs check and `BindingSet::add` |
| `Decompose` | compounds argument by argument, lists head then tail |
| `Clash` | the `nullopt` at the end |
| `Return` | the end of `unifyTerms` |

`held` is the caller's set: `evaluateGoal` passes it by const reference, goes on with
the returned set on success and keeps its own on `nullopt`. So a behaviour of
`Unification` is one branch of a derivation, a sequence of calls on a growing set.
`accepted` is a history variable. `UnifyReturns(goal, fact, b, r)` is a whole call without a
machine around it: steps lead from the pairs of `goal` and `fact` with `b` to a configuration
with no pair left, whose bindings are then `r`, or to one that fails. "Lead to" is reachability,
defined without recursion: what is in every set of configurations that holds the first and is
closed under steps. `occursCheck` is a recursion through terms and
bindings; it is defined without recursion as "`var` is in every set that holds the
variables of `t` and is closed under following bindings", and `MCUnification`
compares it with the recursion (`AgreesWithRecursion`).

**ConstraintStore** knows nothing of terms. A derivation has a set of worlds left; asking a
question ends in `Accept`, which keeps exactly the worlds in which it holds, or `Refuse`,
allowed only if it holds in none of them. Under the mapping in `UnificationRefinement` a
world is an interpretation, the worlds left are those that solve the caller's bindings,
`Call` is `Ask` (or `RefuseAtOnce`, for another predicate or arity), `Return` is `Accept`, a
`nullopt` is `Refuse`, and every step between is a stutter.

**LogicDatabase** knows nothing of lists of clauses, of stacks, names or keys. Clauses are
told (`Tell`), a question is asked (`Ask`), and found (`Find`) with any set of results that
follow from the clauses and exhaust what they derive; `Reply` tells what the results say, and
`Crash` is the stack overflow. Under the mapping in `DatabaseRefinement` the facts and rules
are those of the lists, a question has been found when `evaluateGoal` returns to `query`, the
loop at the end of `query` is `Reply`, and every step of the evaluator before that is a stutter.
`query` says nothing of a result that binds none of the variables of the query; so soundness
and completeness are of results, and answers are what is said of each of them.

**KnowledgeBase.** `stack` is the C++ stack, `visited` the set passed by reference,
`call`/`ret` what is passed down and up. `GoalEnter` is the key and its insertion,
`TryFact` one pass of the loop over the facts;
`SkipRule`, `RuleFails`, `RuleBody`, `RuleReturned` are the loop over the rules (in
`RuleBody` the counter has advanced before the body is entered), `GoalReturn` erases the
key, and the five conjunction actions are the places where `evaluateConjunction` waits.
`QueryReturn` is the loop at the end of `query` that keeps, shortens or drops each
result. `StackOverflow` ends the process when `MaxDepth` frames are in use.
`addFact` and `addRule` ignore what they reject, so a rejected clause is no step.
Rules and facts added between queries are interleaved in every order.

**Names.** A text is a sequence; the generated name `X_7` is `<<"X", 7>>`. So a
query variable can be written that has a generated name (run `query_capture`).

**Parser.** The input is not chosen in advance: every decision of the parser looks at
one token, `tokens_[current_]`, so `look` is that token and the next one is chosen
when the parser advances. A behaviour is thus an input together with its parse, and
inputs that share a prefix share its states. `consumed` is a history variable.
A text that is loaded or asked is a sequence of words, marks and carriage returns; that
words end at blanks and marks is taken from `tokenize`, and `addToken` classifies them by
their first characters.

**Consequence.** A *world* says which literals are true and what every variable stands for.
`ResultsFollow`: in every world where the clauses are true, under all the names used so far,
and in which a result is solved, the query is true. `EvaluationsFollow` is the invariant
behind it, proved and no longer checked by a run of its own: every activation holds results of its own task, and its task, proved, is what the
activation below it waits for.

**Completeness.** A *derivation* gives every ground literal it derives a height above those it
is derived from; it is `Supported` if the clauses in the store justify each of its steps.
`ResultsComplete`: every instance of the query in a supported derivation is an instance under
one of the results. `NothingForgotten` is the invariant behind it. The instance that TLC checks
gives values to the variables that clauses and queries are written with; the theorem's
valuations also give them to the names that renaming makes.

**Scoping.** `RenamedApart` is about the moment before a rule's head is unified, and about every
activation on the stack, `CutsOnlyRepeats` about the moment a key is found in the visited set.

**Loader.** A step reads a line: `SkipLine`, `FactLine`, `RuleLine`, `LineFails` (an
exception, in whichever of the three places it is thrown) or `EndOfFile`. `Prepared` is the
trimming of line 336, `Cut` the loop over the body of line 384 with its two depths,
`GoalTexts` the dropping of empty goals. `StoreRule` ignores what `addRule` rejects. `read`
is a history variable. `Load` and `QueryText` are possible between calls, as they are from
one thread. `CannotOpen` is the file that cannot be opened.

**Repl.** One action per command and outcome; `report` is what was printed, `typed` a history
of the lines that would say the same in a file. The REPL's splitter is `GoalTexts` with
`counted = FALSE`, because the copy does not count brackets. `EnterRule` reports
"added" whatever `addRule` does, as the code does.

**SimpleQuery.** `main` is the place in the program: the constructor (`Construct`,
`Constructs`, `ConstructFails`), `execute` (`Execute`, `Executes`), and the exit code.

**Connection.** A request is three parts, the request line, the end of its header, its body;
a read delivers any number of those that are under way, and `readDataAvailable` sees only
what this read delivered, because the buffer is moved out each time. The endpoint is found
anywhere in it. `Continue` is the continuation on the executor; `Delete` and `Used` turn a
handler that is deleted twice, or used afterwards, into `"dangling"`, where the behaviour
ends, since what follows is undefined. The client may end its side and still receive
(`Finish`), go away (`HangUp`), or lose the connection (`Break`), at any moment, also while an
answer is due. `ReadEOF` follows when all it sent has been read, `ReadErr` and `WriteErr` when
the connection has failed, and each deletes the handler whoever still waits; `reading` is whether
the handler is the socket's read callback, which the socket clears before `readEOF` and `readErr`
and which `writeErr` leaves set. `WriteSuccess` comes when the client has the answer, or never
will: no sooner, because only a late callback can meet a deleted handler. `whole`, `patient` and `orderly` say what a behaviour's reads,
client and connection are like, and never change: reads deliver whole requests; the client waits
for an answer before its next request; the connection ends or fails only with no answer due.

**Handler.** One action per callback; `content` is what the body says once its chunks are
together in order, which `Received` tests. `OnError` may come at any moment.

## Runs and bounds

| Run | Question | Bounds, and why they suffice |
|---|---|---|
| `unify` | Are unifiers most general, `nullopt` right, bindings acyclic and never overwritten? Does the evaluator's recursion do what the step machine does? | Two calls over all pairs of 17 literals and every kind of term. A cycle through two bindings, a variable bound to a variable, and a failure after a partial success all need two pairs, which a binary literal or two calls give. |
| `unify_store` | Does `Unification` implement `ConstraintStore`, and does every call return? | Two calls over seven literals that share variables. |
| `query` | Is what is answered what follows, is the guard exact and harmless, is nothing captured, do queries return? | Four programs, each loaded in every order and partially: ground queries over a cycle with up to three of four rules (two mutually recursive, one invalid); five open queries over acyclic data; two queries in a row of which one may overflow the stack; eight queries of `member` and `append` over lists of up to two elements, with unbound arguments in every place. |
| `consequence` | Is every result a consequence of the clauses in every world, and is nothing missed that they derive? Does the evaluator implement `LogicDatabase`? Does the code do what the theorems on the evaluator ask of it? | 216 worlds: three individuals, all values of three letters, two ways to understand renamed variables, the least models of each subset of the facts. The data are cyclic and the stack eight frames deep, so that goals are cut off, heads do not match, and some queries overflow. The derivations are those of every subset of the facts with every subset of the rules. `LogicDatabase` is implemented in all of that. The hypotheses are evaluated for 18 literals over a variable, its first renaming and an individual, the 15 acyclic binding sets of the two variables, and one rule. |
| `parse` | Does the parser accept exactly the grammar, return what it spells, end, agree with the recursion, and read back what `toString` prints? | Every input of up to eight tokens over four words (a name, a number, a variable of each mode), both modes, both entry points, repeated calls. Eight tokens fit a fact around a list with a tail, a nested list or a nested compound. |
| `bodies` | Are rule bodies split into their goals? | Every body of up to three goals of six to eight tokens over two words, and of each body of two goals every variant with one token dropped or doubled; besides, a fact and a blank line. |
| `programs` | From text to answers: is the store what was written, and are the answers and what is printed true of it? | Four clients. Files of one line in four layouts of each clause, and of two lines in every combination; three files, in all orders of their lines, loaded twice with queries in between, where one load may fail half way; REPL sessions of two typed clauses, one file and one query, well and badly written; runs of `simple_query` on all orders of three programs. |
| `http` | Is every request answered once, rightly and in order, and when is the handler used after its end? | Two requests over one connection of every kind and content, cut at every place, a client that waits or not, a half-close, a hang-up and a failure at any moment or between answers only; one proxygen request with up to three chunks and an error at any moment. Three chunks are what it takes for an order to be wrong in the middle. |
| `query_universal`, `query_capture`, `query_no_overflow`, `load_blank` | the findings below | the smallest program or file that shows each |

The constants `Max...` bound what the environment does; every one is a guard of the action
it bounds. `MaxDepth` is the size of the C++ stack. In `query` and `programs` it is 20, more
than any evaluation needs except those of left recursion; an overflow elsewhere would show
as a query that does not return (`QueriesReturnHere`) or has no answer. In `consequence` it
is eight, so that overflows happen.

`MCScenarios`, `MCPrograms` and `MCHttp` put several instances side by side: a variable that
never changes (`scenario`, `running`, `serving`) says which one a behaviour is about, and the
properties that are about one of them say so. `MCBodies` has a next-state relation of its own,
`Loader`'s without queries. `CHECK_DEADLOCK FALSE` is given where the environment's bounds end
the run; the parser can always be called again, so there deadlock is checked.

What the properties say, in one line each:

* `BindingsAcyclic`: no non-empty set of bound variables leads only into itself.
* `SolutionsPreserved`, `MostGeneral`, `NulloptIsRight`: stated with *interpretations*,
  which give every term a finite tree such that terms have the same tree iff they have
  the same shape and arguments. While a call runs, its bindings and pending pairs have
  exactly the solutions of the question; what it returns has exactly the solutions of
  all that was unified; `nullopt` means there is none.
* `BindingsOnlyGrow`: no step changes a binding of the caller.
* `ImplementsStore`: `Unification` implements `ConstraintStore`.
* `AgreesWithRecursion`, `ResolvedAlike`: both translations of unify agree, and
  `resolveTerm` makes the two sides of a successful call equal and fully resolved.
* `CallsReturn`, `QueriesReturnHere`, `ParsesEnd`: calls return; queries do unless a rule
  recurses through its first goal.
* `GuardExact`: the visited set is the set of keys of the goals under evaluation, and
  none of them is there twice. `CutsOnlyRepeats`: a goal is cut off only if the same goal,
  and not one that prints like it, is under evaluation.
* `GraphAnswersSound`, `GraphAnswersComplete` (`Sound` and `Complete`, where they are
  claimed): the answers assert nothing but the least model, and everything in it that is an
  instance of the query. `ListAnswersRight`: the answers of `member` and `append` are the
  true instances, each once.
* `RenamedApart`: a rule about to be used shares no variable with any goal or binding.
* `ResultsFollow`, `ResultsComplete`: see `Consequence` and `Completeness` above.
  `ImplementsDatabase`: the two of them, that clauses only come by being told, that answers are
  said of exactly the results of the question asked, and that nothing else is to be seen. `GraphAnswersSound` and `GraphAnswersComplete` are what the first and
  the last come to for the answers, the code's own unifier and the least model.
* `TypeOK` of `Parser` includes `CallsNest`: every activation but the topmost is at a place
  where the code calls `parseTerm`, so what a call returns reaches whoever asked for it.
* `AcceptsRight`, `RejectsRight`: accepted inputs are sentences with the right meaning;
  inputs are rejected only at a token no sentence has there, or at their end.
* `PrintsBack`: `toString` of a parsed fact, read in query mode, is that fact, provided
  no name in it begins with `?` (a name may in rule mode, and then prints like a variable).
* `BodiesKept`, `GoalsAreWritten`: a well written body is stored as its goals; whatever is
  stored of any other is written in the body, one goal after the other. That a goal of a damaged
  body is lost without a word is allowed, and happens.
* `StoreIsWhatIsWritten`: after loads and commands, failed ones included, the store holds
  the clauses that were written, each as often as it was read, and nothing else.
* `AnswersWhatIsWritten`: the answers to a text assert exactly its instances in the least
  model of the text read so far.
* `PrintsTheTruth`: what the REPL prints is true of what was said. `WholeFileRead`:
  `simple_query` has an object to ask, and exits with 0 and results, only if the file was
  read to its end.
* `DrivesKnowledgeBase`: loader, REPL and `simple_query` do nothing to the store and the
  evaluator but what a client of `KnowledgeBase` may.
* `AnsweredInOrder`: a client that waits gets the right answers in order, if its requests
  arrive in one read. `ResultsOnce`: however they arrive, results are sent once at most and
  to the query endpoint only. `OnlySuccessComesLate`: no query finds the handler deleted and
  nothing deletes it twice, if the client waits for its answers and the connection ends or fails
  only between them. `PostAnsweredOnce`: one response, the one the body calls for.
  `RequestsAnswered`, `PostsAnswered`: there is one, unless the client ends its side or the
  connection fails.

The grammar documents two leniencies of the code that its comment does not mention: a
comma may follow the last term of a fact (but not the last argument of a compound or
element of a list), and both may be empty. What follows the closing parenthesis of a
fact is ignored.

## Fairness

`unify`, `query` and `parse` are synchronous: the thread that calls runs the callee to
its end. Each specification assumes weak fairness of the callee's steps, and nothing of
the environment: no call need ever be made. In `KnowledgeBase` it is
written out (`Fairness`): a step of the evaluation is enabled exactly while a query
runs, and is then the only kind of step there is, so "always eventually no query runs,
or always eventually a step is taken while one does" is what `WF_vars(Evaluate)` says,
and TLC need not compute `ENABLED`. `loadFromFile` is synchronous too: `LoaderSpec` is
weakly fair to `ReadFile`, and no property of a run rests on it.

`Connection` is weakly fair to reading what is on the wire, to each of the socket's
callbacks, and to the executor running what it was given: that is what an event loop and a
thread pool do. Nothing is assumed of the client and the
network: the client need not send, wait or end the connection, and the connection need not fail.
`Handler` is weakly fair to proxygen bringing the request on and to the executor; errors
need not happen.

## Findings

Four places where a comment says more than the code does; each has a run whose
counterexample shows it.

1. **Facts are not renamed** (`knowledge_base.cpp:567`). Rules are renamed before each
   use, facts are not, although both are read with the same convention for variables
   (line 414). A fact with a variable keeps the binding of its first use for
   the rest of the derivation: with `knows(X, c)` and
   `path(X, Y) :- knows(X, c), knows(Y, c)`, `path(a, b)` has no answer
   (`query_universal`).
2. **Generated names are not fresh** (`:492`). The new name is the old one, `_` and the
   counter; a query variable `?Y_1` is shared with a rule whose `Y` is renamed second.
   Line 577 says "Rename variables in the rule to avoid capture" (`query_capture`).
3. **The recursion guard misses open goals** (`:554`). Its key contains the
   fresh names, so a left-recursive rule never repeats a key and overflows the stack.
   Lines 552 and 556 say it detects infinite recursion (`query_no_overflow`).

4. **Blank lines of CRLF files** (`:329`). The test for an empty line knows spaces and
   tabs; a line that holds a carriage return only is not skipped, is not trimmed either (line
   337 finds nothing to keep), and ends the load with "Empty query". Line 328 says
   "Skip empty lines and comments" and line 336 counts `\r` among the blanks (`load_blank`).

The passing runs stay clear of these on purpose and say so by their inputs:
the graph programs of `query` have no facts with variables; `lists` has facts with
variables, but uses each once in a derivation; no passing run has generated names in a query,
and left recursion occurs only in the scenario `diverging`, where completeness and
termination are not claimed; files with CRLF ends of line have no blank line.

Read off the code while modelling, and no more than that: these follow from single lines and
have no run.

* An atom that a rule-mode text writes as `?X` prints like the variable `X`, so two different
  goals could have one key in the visited set; `CutsOnlyRepeats` holds for texts without one.
* Two goals without a comma between them are read as the first of the two, in a body and in
  a query (`query_parser.cpp:40`).
* The REPL says "Added rule" of a rule that `addRule` has rejected (`repl.cpp:150`), and its
  query engine holds a copy of the knowledge base made before anything was loaded (`:40`); it
  is never used.
* A request that arrives in two reads is answered with 404, twice, or not at all
  (`server.cpp:44`); `ResultsOnce` holds nevertheless.
* `onRequest` answers a request that is not a POST with 400, and `onEOM` answers it again
  (`handler.cpp:20`).
* A client that half-closes or hangs up, or a connection that breaks, while an answer is due
  makes `readEOF`, `readErr` or `writeErr` delete the handler with a query or a write under way:
  the continuation then uses the deleted handler (`server.cpp:89`), and after `writeErr` the read
  callback deletes it a second time (`:70`). A client that only half-closed is still waiting, and
  may get no answer. `Connection` has all of these steps; `OnlySuccessComesLate` says that with
  none of them before the answer has arrived, nothing comes late but `writeSuccess`, which does
  nothing, of an answer the client has got. Even that is a call to a deleted object.
* `onError` deletes a handler whose query is under way (`handler.cpp:50`); `PostAnsweredOnce`
  claims nothing of a request it has given up but that nothing wrong goes out.
* Pipelined queries may be answered out of order, since each continuation writes when its query is
  done (`server.cpp:100`). `ResultsOnce` holds nevertheless; `AnsweredInOrder` is about a client
  that waits.
* The continuation calls `writeChain` on a thread of the executor, on a socket that belongs to the
  thread of the event base (`server.cpp:120`).
* A result that leaves every variable of the query unbound is dropped
  (`knowledge_base.cpp:476`), so a query that holds for every instance has no answer.

## Proofs

`tlapm` checks every step. There are two kinds of premises. Assumptions on constants are
named (`...Assumption`) and evaluated by TLC in the runs. Hypotheses of theorems (`ASSUME`
... `PROVE`) say what a parameter has to do, such as the unifier that the evaluator is given;
each is listed below with the reason why the code meets it, and `MCHypotheses` lets TLC
evaluate most of them for the definitions of `TermOps`.

The theorems make one argument, from the bottom up: what a call of unify returns
(`UnifierProofs`), that the machine returns just that (`UnificationProofs`), what the evaluator
does with any unifier (`KnowledgeBaseProofs`, `ConsequenceProofs`, `CompletenessProofs`), that
this is what a database does (`ClientProofs`), and that clients change nothing in it. The last
theorem, `EvaluatorOfTermsIsDatabase`, puts all of it together.

**`UnifierProofs`** is about the steps of unify and about whole calls, for any universe of terms
in which variables with one name are one term and lists are `[]` or a pair
(`UniverseAssumption`). It need not be finite.

| Theorem | States | Argument |
|---|---|---|
| `UnifyReturnsUnifier` | what a call returns has exactly the solutions of the bindings and literals it was given; nullopt means there are none | `StepSolutions`: a step replaces a pair by bindings and pairs with the same solutions; `FailureHasNoSolution`. The configurations with the solutions of the first one are closed under steps, so what the steps lead to is among them (`CallSolutions`). For the occurs check (`OccursMeansNoSolution`): in a solution that made `x` and `t` equal, the variables with a tree smaller than that of `t` would be closed under following bindings and hold those of `t`, so `x` would be among them, smaller than itself. |
| `UnifyKeepsToTheGiven` | it returns no cyclic bindings, and none but between the terms it was given | the same way. `AddBindingAcyclic`: if the occurs check passes, some closed set `C` of variables holds those of the value and not the variable; a set of bound variables that misses `C` contains the new one, whose value it does not meet; one that meets `C` has, by the hypothesis on its part inside `C`, a member whose value avoids that part and cannot leave `C`. |
| `FollowingEnds` | on acyclic bindings every set of terms has a member none of whose parts, its arguments or its value, is in the set: `resolveTerm` and `occursCheck` end | if the set has bound variables, one of them has a value that mentions none of them; among the terms of the set that mention none of them, take one whose arguments are not such terms. `TermsAreFinite`, the only hypothesis, is that on terms without bindings; it holds wherever terms have a size (`InterpretedTermsFinite`). |
| `UnifyEnds` | given acyclic bindings, every call returns | Every term lies in a set that no step leaves and in which finitely many variables are unbound (`EveryTermConfined`, by `FollowingEnds`). Induction on their number (`EndsWhateverIsUnbound`): whatever is left to do ends once another variable is bound. As long as none is, a pair of terms ends if the pairs of their parts do (`PairEndsIfPartsDo`), and two nested uses of `FollowingEnds`, one for each side, show that all pairs do (`AllPairsEnd`). |
| `UnifyReturnsOne`, `UnifyIsAFunction` | a call has one result for its arguments | no configuration has two successors, a final one has none; so the configurations that lead to a given end are closed under steps |
| `UnifierMakesAlike` | if a call returns `c`, whatever resolves terms under `c` turns the goal and the fact into one literal with no bound variable left in it, and is most general: no solution of the question tells a term from what it is turned into | Resolving is itself an interpretation, of terms by the terms they are turned into, and it solves `c` (`ResolvingInterprets`); so by `UnifyReturnsUnifier` it solves the question. That no bound variable is left is `ResolvedThroughout`: by `FollowingEnds` no term could be the first to keep one. Assumed: terms that are not variables are told by their shape and arguments (`ToldByParts`), and some interpretation exists; both are checked on the instance of `MCUnification`. |

**`UnificationProofs`** is for every set of terms, literals, interpretations and every
number of calls, and for the refinement of `ConstraintStore`. Assumed besides: literals are over
the universe (`LiteralsAssumption`); `MaxCalls` is a natural number; `Interp` holds
interpretations (`InterpAssumption`).

| Theorem | States | Argument |
|---|---|---|
| `TypeCorrect` | `[]TypeOK` | inductive |
| `AlwaysAcyclic` | `[]BindingsAcyclic` | inductive with `TypeOK`, by `StepAcyclic` |
| `NeverOverwritten` | `BindingsOnlyGrow` | needs `ExtendsHeld`: while a call runs its set extends the caller's. `Bind` only adds an unbound variable. |
| `NoSolutionLostOrAdmitted`, `UnifierMostGeneral`, `NulloptJustified` | `[]SolutionsPreserved`, `[]MostGeneral`, `[]NulloptIsRight` | one invariant `SolutionInv`, the three together, with `TypeOK`; by `StepSolutions` and `FailureHasNoSolution` |
| `MachineReturnsAsTheRelation` | `ReturnsAsTheRelation`: a call that ends returns what `UnifyReturns` says | `UnderWay`: while a call runs, steps have led from what it was given to what it holds |
| `ReturnedBindingsMakeAlike` | `ReturnsMakeAlike`: a call that returns bindings makes goal and fact alike under them, the general form of `ResolvedAlike` | `ReturnsStep`, `AcyclicStep` and `UnifierMakesAlike` |
| `AlwaysKeepsToTheGiven` | `KeepsToTheGiven` | with `StaysWithin`: while a call runs, its bindings and the pairs left lie in every set, closed under arguments, that holds the caller's bindings and the two literals (take the terms over some variables for that set) |
| `UnificationImplementsStore` | `ImplementsStore` | `SolutionInv` is the invariant. `CallAsks`: a call is `Ask` or `RefuseAtOnce`; `InsideUnseen`: the steps inside change nothing the mapping shows; `FailureRefuses`: by `NulloptIsRight` no world left solves the question; `SuccessAccepts`: by `SolutionsPreserved` the worlds left are those that solve the new bindings. |

**`KnowledgeBaseProofs`** is for any clauses, any bounds and any `Unify`, `KeyOf`,
`Rename`, `Answer`; the bounds and `Advance` must be natural numbers (`BoundsAssumption`,
`AdvanceAssumption`).

| Theorem | States | Argument |
|---|---|---|
| `TypeCorrect` | `[]TypeOK` | part of `Inv` |
| `GuardAlwaysExact` | `[]GuardExact` | the invariant is `Inv == TypeOK /\ GuardExact /\ IdleClean`. `IdleClean` (between queries the stack and the visited set are empty) is what makes `Query`, which clears the set but not the stack, keep exactness. The lemmas `PushGoal`, `PushConjunction`, `SetTop`, `Pop` say what the four things that happen to a stack do to the guard; `Resumes`, `CallsConjunction`, `Pops` reduce every action to one of them. |

The next three modules are about what the evaluator computes, for any clauses, queries and
terms. Their hypotheses:

| Hypothesis | Says | Why the code meets it |
|---|---|---|
| `InputsNamed` | clauses and queries are `Literals`, and their variables are in `NamesBefore(0)`; `NamesBefore` grows with its argument | `NamesBefore(n)` is to be read as the variables whose name does not end in `_` and a number of `n` or more. This is where the finding `query_capture` is excluded, and nowhere else. Where only soundness is claimed, `NamesBefore(n)` may be all names. |
| `RenamingNamed`, `RenamingFresh` | a renamed rule is made of literals, has a body, and names that are in use after the counter has advanced and were not before | the new names end in the counter's values from `n` to `n + Advance(r) - 1` |
| `RenamingRenames` | whatever a rule's variables stand for, those of the renamed rule may, without a change to the names in use | renaming is one to one |
| `UnifierKeepsNames` | a result of unify is one binding set, over the variables it was given | proved of the steps |
| `UnifierSound` | it is solved only where the caller's is and goal and clause are equally true | proved of the steps |
| `UnifierComplete` | if a solution of the caller's bindings makes goal and clause the same, there is a result and it keeps that solution | proved of the steps |
| `KeysTellGoals`, `KeysTellMeanings` | goals that print alike under their bindings are alike; mean the same where both bindings are solved | `toString` prints every part of a term. It takes programs in which no two terms print alike: no atom that a rule-mode text writes as `?X` beside a variable `X`, no atom with the digits of a number. |
| `Meanings` | meaning depends on what the variables in a literal stand for, heights are natural numbers | the reader's choice of `Valuations` and `Derivations` |

`Literals` and `BindingSets` are to be read as finite terms and acyclic binding sets: by
`AlwaysAcyclic` the code has no others, and on a cyclic one its recursions would not return.
`EvaluationExact` is all of the hypotheses but `RenamingFresh` and `KeysTellGoals`.

All of them but `InputsNamed`, `KeysTellGoals` and the reader's choices are derived, one by one,
from what unify, `renameVariables` and `substitute` do to terms:

| Hypothesis | Says | Theorems that derive from it |
|---|---|---|
| `OverTerms` | literals and binding sets are made of terms, their variables are those that occur in them | all of these |
| `UnifiesBySteps` | `Unify` returns what the steps of `Unifier::unify` lead to. By `UnifyIsWhatTheStepsReturn` that says which function `Unify` is, and there is one; by `MachineReturnsAsTheRelation` the machine computes it, and `AgreesWithRecursion` compares it with the recursion of `TermOps`. | `UnifyingByStepsKeepsNames`, `UnifyingByStepsIsSound`, `UnifyingByStepsIsComplete` |
| `RenamesByTerms` | a renamed rule has its variables replaced, different ones by different ones, by names that are new | `RenamingByTermsIsFresh`, `RenamingByTermsRenames` |
| `SubstitutesByTerms` | `Substituted` replaces every bound variable by what its value becomes (`Resolves`) | `KeysOfTermsTell`: with `KeysTellGoals`, `KeysTellMeanings` |
| `WorldsOfTrees`, `ValuationsOfTrees`, `ValuationsFree` | worlds and valuations let every variable stand for a tree, literals mean what their trees say, and variables may stand for what others do | as above, and `Meanings` |

`OfTerms` is these together. In `MCHypotheses` TLC evaluates `OverTerms`, `SubstitutesByTerms`,
`WorldsOfTrees`, `ValuationsOfTrees` and `ValuationsFree`, and of the hypotheses above those on
the unifier, the keys and meanings, and, for one rule and its first renaming, on the renaming. It does
not evaluate `UnifiesBySteps`, which is reached through `AgreesWithRecursion` only, nor
`InputsNamed`, `RulesNamedAlike`, `StartsFree` and `AnswersListed`, which are about how the
model is set up.

**Scoping, in `KnowledgeBaseProofs`**

| Theorem | States | Argument |
|---|---|---|
| `AlwaysRenamedApart` | `[]RenamedApart` | `NamesInv`: all goals, bindings and results that an evaluation holds, in every activation, are made of names used so far (`NamesOK`), with `Inv`. One lemma per action; a rule renamed with the counter at `n` misses them all. The invariant has to speak of results too: they become the bindings of later goals. |
| `AlwaysCutsOnlyRepeats` | `[]CutsOnlyRepeats` | a key in the visited set is that of a goal under evaluation (`GuardExact`), whose key is still that of its goal and bindings (in `NamesInv`) |

**`ConsequenceProofs`** takes `InputsNamed` and `EvaluationSound` (`RenamingNamed`,
`UnifierKeepsNames`, `UnifierSound`), and nothing of what renaming does to names: capture
costs answers, not soundness.

| Theorem | States | Argument |
|---|---|---|
| `ResultsAlwaysFollow`, `EvaluationsAlwaysFollow` | `[]ResultsFollow`, `[]EvaluationsFollow` | `FollowInv`: `NamesInv`, and for every world in which the clauses hold, `EvaluationFollows` and that lists are lists. `PushFollows`, `SetTopFollows`, `PopFollows` say what the stack's changes do to it; one lemma per action of the evaluator. `ClausesHeld`: the clauses and the counter only grow, so a world in which they hold afterwards is one in which they held before. |

**`CompletenessProofs`** takes `InputsNamed`, `EvaluationRight` (`RenamingNamed`,
`RenamingRenames`, `UnifierKeepsNames`, `UnifierComplete`), `KeysTellMeanings` and `Meanings`.

| Theorem | States | Argument |
|---|---|---|
| `NeverForgets` | `[]NothingForgotten` | `AccountsInv`: `NamesInv` and `NothingForgotten`. An activation owes its caller the solutions that derive its goals *lower down than any goal under evaluation* (`OwedBy`); each is among its results, under a clause it has not come to, or owed by the activation it called (`Accounted`). That heights go down is why cutting off costs nothing: a goal that is cut off has the key, so the meaning, of one below it, and nothing can be lower than itself, so nothing is owed. `AgreeFacts` and `OwedMoves` carry a debt from one valuation to another that agrees on the variables in use, which is how renamed rules are paid for. |
| `MissesNoAnswer` | `[]ResultsComplete` | when the stack is empty the one debt left is that to `query()`, and it has been paid (`AccountsSettled`) |

`ResultsComplete` counts only ground facts among what derives (`GroundFact`), which is where the
finding `query_universal` is excluded, and claims nothing of an evaluation that overflows the
stack: it never gets to its `return`.

**`ClientProofs`** is for any files, any parser and any bounds (`TextsAssumption`: what the
parser makes of the files is among the inputs of `KnowledgeBase`; `CommandsAssumption`: so is
what may be typed). `UsedByText` is the disjunction of `LoaderSpec`, `ReplSpec` and `MainSpec`.

| Theorem | States | Argument |
|---|---|---|
| `KnowledgeBaseImplementsDatabase` | `ImplementsDatabase`, under `EvaluationExact`, and three that are the mapping's: a rule that is true is true under every name it is given (`RulesNamedAlike`), a query starts from bindings that every valuation solves (`StartsFree`), what is told of a result is a list (`AnswersListed`) | the invariant is `FollowInv /\ AccountsInv`; from it, `FoundRight`: when `evaluateGoal` has returned to `query`, the results follow from the clauses and exhaust what they derive. Then one lemma per kind of step: clauses are told, a question asked, found, lost to an overflow, or answered (`QueryReplies`, for which `FlattenMembers` shows that the list put together of the answers of the results has their elements and no others); `EvaluatorUnseen`: all other steps change nothing the mapping shows. |
| `TextImplementsDatabase` | the same for `UsedByText` | the same invariant, over `DrivesKnowledgeBase` |
| `EvaluatorOfTermsIsDatabase` | both, under `OfTerms` in place of `EvaluationExact` | `OfTermsIsExact`: the derivations of the table above |
| `LoaderTypeCorrect` | `[]LoaderTypeOK` | inductive; a file is only read between queries |
| `LoaderDrivesKnowledgeBase` | `DrivesKnowledgeBase` for `LoaderSpec` | `LoaderStep`: every step is a step of `KnowledgeBase` or leaves it alone; `StoreSteps`: a clause read from a line is stored as a client would, or not at all |
| `ReplDrivesKnowledgeBase`, `MainDrivesKnowledgeBase` | `DrivesKnowledgeBase` for `ReplSpec`, `MainSpec` | every command and every place of `main` is a step of the loader or leaves it alone (`OtherCommands`, `MainStep`), except the clauses that are typed, which are stored as a client would (`TypedClauses`) |
| `MainReadsTheWholeFile` | `[]WholeFileRead` | inductive with `LoaderTypeOK`: while the constructor runs, what has been read and what is left are the file |
| `TextGuardExact`, `TextResultsFollow`, `TextRenamedApart`, `TextMissesNoAnswer` | `GuardExact`, `ResultsFollow`, `RenamedApart`, `ResultsComplete` for `UsedByText` | the invariants of the evaluator, carried over the three refinements, with their hypotheses |

**`ParserProofs`** is for any words, inputs of any length and both modes; `MaxTokens` must be
positive. The language is that of the sentences of up to `MaxTokens` tokens, which is as far as the
machine reads.

| Theorem | States | Argument |
|---|---|---|
| `ParserTypeCorrect` | `[]TypeOK` | `ParserInv`: the input read so far and what may still come (`InputOK`), and a stack that nests as the calls of the code do (`WellNested`, in `ControlOK`): only the first activation is a `parse`, and all below the top await a term. `TopReplaced`, `Pushed`, `Popped` say what happens to a stack; one lemma per place of the code. |
| `ParserStepsRunOut`, `StepsLeftCounts` | `StepsRunOut`, `[](StepsLeft \in Nat)` | `StepsLeft` is six times the tokens that may still come, plus a rank of the place the parser is at; every step of a call makes it smaller. So a call takes at most `6 * MaxTokens + 2` steps. This is the part of `ParsesEnd` that does not need fairness. |
| `ParserAcceptsRight`, `ParserRejectsRight` | `[]AcceptsRight`, `[]RejectsRight`: the parser accepts exactly the sentences of `Grammar`, gives each its meaning, and fails at the first token that no sentence has there | `LanguageInv`, below. |

`AcceptsRight` and `RejectsRight` speak of a call's end; what has to hold half way, with the stack
of the recursion standing between the two, is said by `LanguageInv`, in four steps.

1. *Rules.* `Grammar` is a table of spellings by length, a recursive function. By induction on the
   length (`SetInduction`), a text is in the table if, and only if, it has one of the forms of the
   grammar's rules (`TermIsShape` and `ShapeIsTerm`, and their like for term lists, the inside of
   lists and facts).
2. *Places.* Each place of each function has a language of its own, what is still to be read there
   and what is then returned (`AtLoop`, `AtListRest`, ...; together `Rest`). A rule told from its
   first place to its last is the rule (`InnerIsTold` and `ToldIsInner`, `ItemsIsTold`, `LoopIsTold`
   and back). A token read at a place leaves the language of the next place (`ReadComma`,
   `ReadPipe`, ...), and a token that the code rejects begins nothing there (`Refused`).
3. *Plans.* A plan for a text `w` cuts it into what the activation at the top reads and what those
   below read, each once it is given the value of the one above (`Left`, `Plan`). Calls and
   returns only regroup it (`PlanOfAsked`, `PlanOfGiven`). What is read after a term begins with
   a mark that no term begins with (`LeftBegins`): that is why one token of lookahead is enough.
4. *Invariant.* `ReadsOn`: for every `w` that may come, the input read so far followed by `w`
   spells `r` if, and only if, there is a plan that makes `r` of `w`. Every action keeps it (one
   lemma each, `PredicateReads` to `ParseTermReads`, all by six patterns: an activation moves,
   asks or returns, over a token or without one). When a call is accepted, the only plan is for the
   empty text and its result; when it is rejected there is none, whatever comes.

`ReadsOn` has to be an equivalence. Each direction alone is not inductive for what it is
wanted for: without the one a sentence could have been given up, without the other an input taken
for one.

**`HttpProofs`** is for any number of requests, chunks and methods; it assumes only that the
bounds are natural numbers.

| Theorem | States | Argument |
|---|---|---|
| `PostAlwaysAnsweredOnce` | `[]PostAnsweredOnce` | `HandlerInv`: the body is the first chunks in order and all of them once it has ended (`BodyInOrder`); a response or a query, and neither before the end (`OneResponse`); what is used after its end was given up by proxygen (`GivenUp`) |
| `OnlySuccessEverComesLate` | `OnlySuccessComesLate` | `EndsInv`: the handler is deleted only when the client's side has ended or the connection has failed (`DeletedByItsEnd`); where that comes between answers, an ended client is owed nothing and a broken connection has no query running and no write undelivered (`NothingDue`), and the handler is there exactly while it is read into. With `OneUnderWay` nothing is then left that could find it deleted but callbacks of delivered writes (`EndedQuiet`). |
| `ResultsAlwaysOnce` | `[]ResultsOnce` | `ConnectionInv`: what is on the wire are the parts of requests sent, in order and each once (`InOrder`); a query runs or has been answered only for a request whose head has left the wire (`RunningOK`, `ResultsOK`). `ResultsOnce` alone is not inductive: it does not exclude that a request is asked again, which takes its first part to be delivered again. |
| `AlwaysAnsweredInOrder` | `[]AnsweredInOrder` | `WaitingInv`: with a client that waits, at most one request is under way, and it is on the wire, or its query runs, or its answer is being written or was lost with the connection (`OneUnderWay`); what was received before is right (`AnsweredRight`). That an answer may be lost has to be part of it: `WriteErr`, and a continuation that finds the handler deleted, drop it. |

Only model-checked, because the provers cannot do it:

* liveness (`CallsReturn`, `QueriesReturnHere`, `ParsesEnd`, `RequestsAnswered`,
  `PostsAnswered`): needs `ENABLED`. What is proved of them is what has nothing to do with
  fairness: `UnifyEnds` for the first, `ParserStepsRunOut` for the third;
* what `RECURSIVE` operators compute: a module with theorems cannot reach `RECURSIVE` operators.
  (Induction itself is not the obstacle: with a set in place of the predicate it is a theorem,
  `SetInduction`, and well-founded sets have smallest elements, as in `SmallestTerm` and
  `FollowingEnds`.) So `ResolvedAlike`, `AgreesWithRecursion`, `AgreesWithFunction`,
  `PrintsBack`, `GoalsAreWritten`, `BodiesKept`, `StoreIsWhatIsWritten`, `AnswersWhatIsWritten`,
  `PrintsTheTruth`, `ListAnswersRight`. `ResolvedAlike` is here only because of the recursion that
  resolves the terms: `ReturnedBindingsMakeAlike` is its general form. `AgreesWithFunction` says
  of the loader's `ParserOps`, which is recursive, what is proved of the step machine.
  `GraphAnswersSound` and `GraphAnswersComplete` are among them because of the least model and the answers' terms; the theorems on
  `ResultsFollow` and `ResultsComplete` are their general forms;
* that the recursions of `TermOps` meet the hypotheses above, for the same reason:
  `MCHypotheses` has an instance, and `AgreesWithRecursion` ties its unifier to the steps.

## What is not modelled

* Storage providers: a stub that nothing calls. `service.cpp` constructs a knowledge base as
  `simple_query` does and starts the server; it calls `addExternalProvider`, which does not
  exist.
* `start` and `stop` of the server, and accepting connections: the library's. What a request
  means is reduced to its endpoint and the four kinds of body the code tells apart.
* `toJSON`, printing of answers, messages: layout. The legacy accessors of `BindingSet`
  (`get`, `has`, strings) are printing.
* Text: how a file is cut into lines, where blanks may stand, character by character.
* `evaluateRule` has no caller. `resolve` and `resolveWithType` are `resolveTerm`
  followed by printing or a type test.
* Threads in the core: `varCounter` is shared by every knowledge base in the process and not
  atomic. No built program queries from two threads, and the future that the server expects
  of `query` is not in the repository, so neither is the thread it would run on. The width
  of the counter (`int`) is not modelled: names are drawn one per variable and rule tried.
* Threads in the HTTP server: `Continue` hands its answer to the socket in one step, although the
  code does so from a thread of the executor. What two threads do inside folly's socket is not in
  the repository.
* A parser left in the wrong mode: every clause and query begins with `setRuleMode`, so the mode is
  an argument of the modelled calls.
* A left-recursive evaluation ends in `crashed`; what a C++ process does then is not modelled.

## Plan

Done: the unifier and its abstract specification, the evaluator, the parser, the loader, the
REPL, `simple_query` and both HTTP handlers, with their instances; proofs of the safety of
all of them, completeness of the evaluator included.

Next, in order of importance:

1. Termination of the evaluator on programs whose recursion is bounded.
2. `AgreesWithFunction` and `PrintsBack` for all texts, which takes `ParserOps` and `Printer`
   written as functions on finite sets of terms instead of `RECURSIVE` operators.
3. A bound on the depth of the parser's stack.
