------------------------------- MODULE SimpleQuery -------------------------------
(***************************************************************************)
(* examples/simple_query.cpp: the constructor of KnowledgeBase loads the    *)
(* file named on the command line, and QueryEngine::execute asks one query. *)
(***************************************************************************)
EXTENDS Loader

VARIABLES
    main,       \* "arguments"; "constructing"; "constructed"; "executing";
                \* "exit 0", "exit 1"
    program     \* the lines of the file that is loaded

mainVars == <<main, program>>

MainInit == Init /\ LoaderInit /\ main = "arguments" /\ program = << >>

--------------------------------------------------------------------------------
(* The usage is printed and no file is loaded. *)
Usage ==
    /\ main = "arguments"
    /\ main' \in {"exit 0", "exit 1"}
    /\ UNCHANGED <<vars, loaderVars, program>>

Construct(lines) ==
    /\ main = "arguments"
    /\ Load(lines)
    /\ main' = "constructing" /\ program' = lines

ConstructFails ==
    /\ main = "arguments"
    /\ CannotOpen
    /\ main' = "exit 1"
    /\ UNCHANGED program

(* A mutant: the exception is caught and the program goes on. *)
ConstructsAnyway ==
    /\ main = "constructing"
    /\ ReadFile
    /\ main' = (IF load' \in {"loaded", "failed"} THEN "constructed" ELSE "constructing")
    /\ UNCHANGED program

(* An exception of loadFromFile leaves the constructor: there is no object. *)
Constructs ==
    /\ main = "constructing"
    /\ ReadFile
    /\ main' = (CASE load' = "loaded" -> "constructed" [] load' = "failed" -> "exit 1" [] OTHER -> main)
    /\ UNCHANGED program

(* QueryEngine::execute, which makes an exception of query() a failure. *)
Execute(text) ==
    /\ main = "constructed"
    /\ \/ QueryText(text) /\ main' = "executing"
       \/ ~CanAsk(text) /\ main' = "exit 1" /\ UNCHANGED <<vars, loaderVars>>
    /\ UNCHANGED program

Executes ==
    /\ main = "executing"
    /\ Evaluate
    /\ main' = (IF pc' = "client" THEN "exit 0" ELSE main)
    /\ UNCHANGED <<loaderVars, program>>

MainNext ==
    \/ Usage \/ ConstructFails \/ Constructs \/ Executes
    \/ \E lines \in Files : Construct(lines)
    \/ \E text \in QueryTexts : Execute(text)

MainSpec == MainInit /\ [][MainNext]_<<vars, loaderVars, mainVars>>

--------------------------------------------------------------------------------
(***************************************************************************)
(* The constructor leaves an object only if it has read the whole file, and *)
(* a query is only asked of that object: main returns 0 with results only   *)
(* for a file read to its end.  Until then, what has been read and what is  *)
(* left are the file.                                                      *)
(***************************************************************************)
WholeFileRead ==
    /\ main = "constructing" => load = "reading" /\ read \o file = program
    /\ main \in {"constructed", "executing"} => read = program
    /\ main = "exit 0" /\ asked # << >> => read = program

================================================================================
