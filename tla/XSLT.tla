-------------------------------- MODULE XSLT --------------------------------
(* generic/domxslt.c: a transformation (xsltProcess) with the stylesheet that  *)
(* Stylesheet has read.  What instructions do to the frames of variables and   *)
(* to the state that must follow the calls of ExecAction, ApplyTemplates and   *)
(* ApplyTemplate; which instruction comes next is free.  The built-in rule is  *)
(* a template of one apply-templates without parameters.                       *)
EXTENDS Stylesheet

CONSTANTS Programs,    \* bound: the stylesheets run, by their variables
          MaxFrames,   \* bound: frames on the stack
          MaxVars,     \* bound: variables in one of them
          MaxNested,   \* maxNestedApplyTemplates
          Untangled    \* does every template declare what it is passed before anything else,
                       \* does no variable in the content of a with-param have the name of another
                       \* with-param, and do templates run for a top-level variable stay clear of
                       \* the names of top-level variables?

ASSUME Bounds ==
  /\ MaxNested \in Nat /\ MaxFrames \in Nat \ {0} /\ MaxVars \in Nat
  /\ IsFiniteSet(VarNames) /\ "" \notin VarNames

VARIABLES frames,      \* varFramesStack, with the part of varStack each frame owns
          inProcess,   \* varsInProcess
          nested,      \* nestedApplyTemplates
          rule,        \* currentTplRule: the place in run of the template that set it, or 0
          error,       \* why the last transformation failed, and history: was that right?
          run          \* history: the calls in progress, outermost first

xsltVars == <<frames, inProcess, nested, rule, error, run>>
vars == <<sheetVars, xsltVars>>

NoVar == <<0, 0>>
NoError == [why |-> "none", right |-> TRUE]
Globals == DOMAIN toplevel
Top == Len(frames)
Frame == frames[Top]
Act == run[Len(run)]

Owning(vs) == [vars |-> vs, stop |-> 0, polluted |-> FALSE]
Pushed(stop) == Append(frames, [Owning(<<>>) EXCEPT !.stop = stop])
Room == Top < MaxFrames
Replaced(s, v) == ReplaceAt(s, Len(s), v)

\* An activation: what is visible where it runs, the parameters passed and not
\* yet declared, the variable its value is for, the rule to restore.
Call(kind, env, pending) ==
  [kind |-> kind, env |-> env, pending |-> pending, passed |-> {}, var |-> "", of |-> "",
   saved |-> 0]
NoLocals == [x \in VarNames |-> NoVar]
Inner(kind) == Call(kind, Act.env, Act.pending)

(* ------------------------------- the frames ------------------------------- *)
\* xsltGetVar: from the top to the next frame at which a scope starts, then the
\* outermost one; the innermost frame of parameters being defined is left out.
Bottom == LET starts == {i \in 2 .. Top : frames[i].stop = 1}
          IN IF starts = {} THEN 1 ELSE CHOOSE i \in starts : \A j \in starts : j <= i
Visited ==
  LET params == {i \in Bottom .. Top : frames[i].stop = 2}
  IN {1} \union {i \in Bottom .. Top : ~(i \in params /\ \A j \in params : j <= i)}

First(fs, x, All) ==
  LET ks == {k \in DOMAIN fs.vars : fs.vars[k].name = x /\ (All \/ fs.vars[k].active)}
  IN CHOOSE k \in ks : \A j \in ks : k <= j
Has(fs, x, All) == \E k \in DOMAIN fs.vars : fs.vars[k].name = x /\ (All \/ fs.vars[k].active)

GetVar(x) ==
  LET is == {i \in Visited : Has(frames[i], x, FALSE)}
      i == CHOOSE i \in is : \A j \in is : j <= i
  IN IF is = {} THEN NoVar ELSE <<i, First(frames[i], x, FALSE)>>

\* xsltVarExists: up to the first frame with a stop mark.  What it finds becomes
\* active.
Near == {i \in 1 .. Top : \A j \in i + 1 .. Top : frames[j].stop = 0}
Found(x) ==
  LET is == {i \in Near : Has(frames[i], x, TRUE)}
      i == CHOOSE i \in is : \A j \in is : j <= i
  IN IF is = {} THEN NoVar ELSE <<i, First(frames[i], x, TRUE)>>
VarExists(x) == Found(x) # NoVar

Variable(x, active, decl) == [name |-> x, active |-> active, decl |-> decl]

\* xsltSetVar, when the value is known; here is the place of the variable.
SetVar(fs, v) ==
  Replaced(fs, [Last(fs) EXCEPT !.vars = Append(@, v), !.polluted = TRUE])
Here(fs) == <<Len(fs), Len(Last(fs).vars) + 1>>
Fits(fs) == Len(Last(fs).vars) < MaxVars

(* ------------------------- start, parameters, end ------------------------- *)
Runs ==
  /\ open = <<>> /\ ~failed /\ opened = 1 /\ number[1] = 1
  /\ \A i \in DOMAIN declared : declared[i].kind = "variable"
  /\ [i \in DOMAIN declared |-> <<declared[i].what, toplevel[declared[i].what].what>>] \in Programs

Going == run # <<>>

\* xsltProcess up to the loop of processTopLevelVars, with values for these
\* parameters.  Any other name is refused.
Start(passed) ==
  /\ Runs /\ ~Going
  /\ \A x \in passed : toplevel[x].what = "param"
  /\ Cardinality(passed) <= MaxVars
  /\ frames' = <<Owning([k \in 1 .. Cardinality(passed) |->
                          Variable(SetToSeq(passed)[k], TRUE, "global")])>>
  /\ nested' = 0 /\ error' = NoError
  /\ run' = <<Call("globals", NoLocals, {})>>
  /\ UNCHANGED <<inProcess, rule>>

\* The callers return the error one after another and pop what they pushed;
\* ApplyTemplate puts back the rule.
Owned(r) == Cardinality({i \in DOMAIN r : r[i].kind \notin {"select", "apply"}})
RestoresRule(i) == run[i].kind = "template" /\ run[i - 1].kind = "apply"

Raise(why, right) ==
  /\ error' = [why |-> why, right |-> right]
  /\ frames' = SubSeq(frames, 1, Top - Owned(run))
  /\ LET rs == {i \in DOMAIN run : RestoresRule(i)}
     IN rule' = IF rs = {} THEN rule ELSE run[CHOOSE i \in rs : \A j \in rs : i <= j].saved
  /\ run' = <<>>
  /\ UNCHANGED <<inProcess, nested>>

\* Anything else that fails: an expression, xsl:message, a script.
Fail == Going /\ Raise("other", TRUE)

(* --------------------------- top-level variables -------------------------- *)
\* Its value is an expression (select) or a content, in a frame of its own.
Evaluate(x, how, active, decl) ==
  LET a == [Inner(how) EXCEPT !.var = x, !.of = decl]
      b == IF decl = "global" THEN [a EXCEPT !.env = NoLocals, !.pending = {}] ELSE a
  IN /\ how = "content" => Room
     /\ frames' = IF how = "content" THEN Pushed(0) ELSE frames
     /\ run' = Append(run, b)

EvaluateGlobal(x, how) ==
  /\ Going /\ Act.kind = "globals" /\ x \in Globals /\ ~VarExists(x) /\ Fits(frames)
  /\ inProcess' = <<x>>
  /\ Evaluate(x, how, TRUE, "global")
  /\ UNCHANGED <<nested, rule, error>>

NothingLocal == \A i \in Visited : \A k \in DOMAIN frames[i].vars : frames[i].vars[k].decl = "global"

\* A use of a variable xsltGetVar does not find: it may be a top-level one that
\* has not been evaluated yet.
Forces(x, how) ==
  /\ inProcess # <<>> /\ x \in Globals /\ ~Contains(inProcess, x)
  /\ Untangled => NothingLocal /\ Frame.stop # 2
  /\ Fits(frames)
  /\ inProcess' = <<x>> \o inProcess
  /\ Evaluate(x, how, TRUE, "global")
  /\ UNCHANGED <<nested, rule, error>>

BeingEvaluated(x) == \E i \in DOMAIN run : run[i].var = x /\ run[i].of = "global"

Uses(x, how) ==
  \/ Forces(x, how)
  \/ inProcess # <<>> /\ Contains(inProcess, x) /\ Raise("circular", BeingEvaluated(x))
  \/ /\ inProcess = <<>> \/ x \notin Globals
     /\ Raise("undeclared", Act.env[x] = NoVar /\ x \notin Globals)

Expressions == {"select", "content", "params", "template", "foreach", "scope"}

Use(x, how) == Going /\ Act.kind \in Expressions /\ GetVar(x) = NoVar /\ Uses(x, how)

EndOfGlobals ==
  /\ Going /\ Act.kind = "globals" /\ \A x \in Globals : VarExists(x)
  /\ inProcess' = <<>>
  /\ nested' = nested + 1
  /\ run' = <<[Act EXCEPT !.kind = "main"], Call("apply", NoLocals, {})>>
  /\ UNCHANGED <<frames, rule, error>>

(* ------------------------------ instructions ------------------------------ *)
Body == {"content", "template", "foreach", "scope"}
Executing == Going /\ Act.kind \in Body
\* Instructions other than xsl:param wait for the parameters declared first.
Instruction == Executing /\ (Untangled => Act.pending = {})

\* xsl:if, a branch of xsl:choose, a literal element and its like.
Enter ==
  /\ Instruction /\ Room
  /\ frames' = Pushed(0)
  /\ run' = Append(run, Inner("scope"))
  /\ UNCHANGED <<inProcess, nested, rule, error>>

ForEach ==
  /\ Instruction /\ Room
  /\ frames' = Pushed(0)
  /\ run' = Append(run, [Inner("foreach") EXCEPT !.saved = rule])
  /\ rule' = 0
  /\ UNCHANGED <<inProcess, nested, error>>

NextIterationMutKeeps(fs) == fs
NextIteration(fs) == IF Last(fs).polluted THEN Replaced(fs, Owning(<<>>)) ELSE fs

Again ==
  /\ Executing /\ Act.kind = "foreach"
  /\ frames' = NextIteration(frames)
  /\ run' = Replaced(run, [Act EXCEPT !.env = run[Len(run) - 1].env])
  /\ UNCHANGED <<inProcess, nested, rule, error>>

\* In the content of a with-param, the with-params set before it are near.
Tangles(x) ==
  \/ inProcess # <<>> /\ x \in Globals
  \/ \E i \in Near : frames[i].stop = 2 /\ Has(frames[i], x, TRUE)

Declare1(x, decl, active) ==
  /\ frames' = SetVar(frames, Variable(x, active, decl))
  /\ run' = IF active THEN Replaced(run, [Act EXCEPT !.env[x] = Here(frames), !.pending = @ \ {x}])
            ELSE Replaced(run, [Act EXCEPT !.passed = @ \union {x}])

\* xsl:variable, with select (the expression uses variables before this step)
\* or with content.
DeclareVariable(x, how) ==
  /\ Instruction /\ (Untangled => ~Tangles(x))
  /\ \/ VarExists(x) /\ Raise("declared", Act.env[x] # NoVar)
     \/ /\ ~VarExists(x) /\ Fits(frames)
        /\ IF how = "select" THEN Declare1(x, "local", TRUE) ELSE Evaluate(x, how, TRUE, "local")
        /\ UNCHANGED <<inProcess, nested, rule, error>>

Activated(x) == [frames EXCEPT ![Found(x)[1]].vars[Found(x)[2]].active = TRUE]

\* xsl:param: a value that was passed is only made visible.
DeclareParam(x) ==
  /\ Executing /\ Act.kind = "template" /\ (Untangled => ~(inProcess # <<>> /\ x \in Globals))
  /\ \/ /\ VarExists(x)
        /\ frames' = Activated(x)
        /\ run' = Replaced(run, IF x \in Act.pending
                                THEN [Act EXCEPT !.env[x] = Found(x), !.pending = @ \ {x}] ELSE Act)
     \/ ~VarExists(x) /\ Fits(frames) /\ Declare1(x, "local", TRUE)
  /\ UNCHANGED <<inProcess, nested, rule, error>>

\* The value is known: the frame of a content goes, the variable comes.  One
\* that a use has forced is looked up again, but not among the parameters.
EndOfValue ==
  LET below == IF Act.kind = "content" THEN Front(frames) ELSE frames
      caller == run[Len(run) - 1]
      forced == Act.of = "global" /\ Len(inProcess) > 1
      active == caller.kind # "params" \/ Act.of = "global"
  IN /\ Going /\ Act.kind \in {"select", "content"}
     /\ IF forced /\ Last(below).stop = 2 THEN Raise("circular", FALSE)
        ELSE /\ frames' = SetVar(below, Variable(Act.var, active, Act.of))
             /\ run' = Append(SubSeq(run, 1, Len(run) - 2),
                         IF Act.of = "global" THEN caller
                         ELSE IF active THEN [caller EXCEPT !.env[Act.var] = Here(below)]
                         ELSE [caller EXCEPT !.passed = @ \union {Act.var}])
             /\ inProcess' = IF forced THEN Tail(inProcess) ELSE inProcess
             /\ UNCHANGED <<nested, rule, error>>

(* ------------------------- templates and their end ------------------------ *)
CallTemplate ==
  /\ Instruction /\ Room
  /\ frames' = Pushed(2)
  /\ run' = Append(run, Inner("params"))
  /\ UNCHANGED <<inProcess, nested, rule, error>>

Below == run[Len(run) - 1]
\* The parameters of an apply-templates are the same for every node.
MayPass(x) ==
  /\ x \notin Act.passed
  /\ Below.kind = "apply" =>
       /\ run[Len(run) - 2].kind # "main"
       /\ Below.of = "again" => x \in Below.passed

\* setParamVars
PassParam(x, how) ==
  /\ Going /\ Act.kind = "params" /\ MayPass(x) /\ Fits(frames)
  /\ IF how = "select" THEN Declare1(x, "local", FALSE) ELSE Evaluate(x, how, FALSE, "local")
  /\ UNCHANGED <<inProcess, nested, rule, error>>

\* ExecActions on the children of a template: rules become the current one.
Template(passed) == [Call("template", NoLocals, passed) EXCEPT !.saved = rule]

StartOfTemplate ==
  /\ Going /\ Act.kind = "params"
  /\ frames' = Replaced(frames, [Frame EXCEPT !.stop = 1, !.polluted = FALSE])
  /\ IF Below.kind # "apply"
     THEN /\ run' = Replaced(run, Template(Act.passed))
          /\ rule' = rule
     ELSE /\ Below.of = "again" => Act.passed = Below.passed
          /\ run' = Append(SubSeq(run, 1, Len(run) - 2), [Below EXCEPT !.passed = Act.passed])
                    \o <<Template(Act.passed)>>
          /\ rule' = Len(run)
  /\ UNCHANGED <<inProcess, nested, error>>

ApplyTemplates ==
  /\ Instruction
  /\ IF nested > MaxNested THEN Raise("depth", TRUE)
     ELSE /\ nested' = nested + 1
          /\ run' = Append(run, Inner("apply"))
          /\ UNCHANGED <<frames, inProcess, rule, error>>

\* For the next node, the frame that no variable has polluted serves again.
NextNode ==
  /\ Going
  /\ \/ /\ Act.kind = "apply" /\ Room
        /\ frames' = Pushed(2)
        /\ run' = Append(run, Inner("params"))
        /\ rule' = rule
     \/ /\ Act.kind = "applied"
        /\ frames' = frames
        /\ run' = Append(Replaced(run, [Act EXCEPT !.kind = "apply"]), Template(Act.passed))
        /\ rule' = Len(run) + 1
  /\ UNCHANGED <<inProcess, nested, error>>

EndOfApply ==
  /\ Going /\ Act.kind \in {"apply", "applied"}
  /\ frames' = IF Act.kind = "applied" THEN Front(frames) ELSE frames
  /\ nested' = nested - 1
  /\ run' = Front(run)
  /\ UNCHANGED <<inProcess, rule, error>>

ApplyImports ==
  /\ Instruction
  /\ IF rule = 0 THEN Raise("imports", TRUE)
     ELSE /\ Room
          /\ frames' = Pushed(1)
          /\ run' = Append(run, [Template({}) EXCEPT !.of = "imports"])
          /\ rule' = Len(run) + 1
          /\ UNCHANGED <<inProcess, nested, error>>

AfterNodeMutKeeps(apply) == [apply EXCEPT !.kind = "apply", !.of = "again"]
AfterNode(apply) ==
  [apply EXCEPT !.kind = IF Frame.polluted THEN "apply" ELSE "applied", !.of = "again"]

Leave ==
  /\ Executing /\ Act.kind # "content"
  /\ Untangled /\ Act.kind = "template" => Act.pending = {}
  /\ rule' = IF Act.kind = "scope" THEN rule ELSE Act.saved
  /\ IF Act.kind = "template" /\ Below.kind = "apply"
     THEN LET apply == AfterNode(Below)
          IN /\ run' = Append(SubSeq(run, 1, Len(run) - 2), apply)
             /\ frames' = IF Frame.polluted THEN Front(frames) ELSE frames
     ELSE run' = Front(run) /\ frames' = Front(frames)
  /\ UNCHANGED <<inProcess, nested, error>>

Finish ==
  /\ Going /\ Act.kind = "main"
  /\ frames' = Front(frames) /\ run' = <<>>
  /\ UNCHANGED <<inProcess, nested, rule, error>>

Transform ==
  \/ \E passed \in SUBSET Globals : Start(passed)
  \/ EndOfGlobals \/ Finish \/ Fail
  \/ \E x \in VarNames, how \in {"select", "content"} :
       EvaluateGlobal(x, how) \/ Use(x, how) \/ DeclareVariable(x, how) \/ PassParam(x, how)
  \/ \E x \in VarNames : DeclareParam(x)
  \/ Enter \/ ForEach \/ Again \/ EndOfValue \/ CallTemplate \/ StartOfTemplate
  \/ ApplyTemplates \/ NextNode \/ EndOfApply \/ ApplyImports \/ Leave

XSLTInit ==
  /\ Init
  /\ frames = <<>> /\ inProcess = <<>> /\ nested = 0 /\ rule = 0 /\ error = NoError /\ run = <<>>

Next ==
  \/ Load /\ UNCHANGED xsltVars
  \/ Transform /\ UNCHANGED sheetVars

Spec == XSLTInit /\ [][Next]_vars

(* ------------------------------- properties ------------------------------- *)
Declared(p) == frames[p[1]].vars[p[2]]

\* A variable is looked up in the frames, yet what is found is what the nesting
\* of the instructions says: the binding of this template that is in scope, else
\* the top-level one.
Lexical(x) ==
  IF Act.env[x] # NoVar THEN GetVar(x) = Act.env[x]
  ELSE /\ GetVar(x) # NoVar => Declared(GetVar(x)).decl = "global"
       /\ run[1].kind = "main" /\ x \in Globals => GetVar(x) # NoVar

\* And errors about variables are right: it has been declared in this template,
\* it is not declared, its own evaluation needs its value.
LookupsAreLexical ==
  /\ Going /\ Act.kind \in Expressions => \A x \in VarNames \ Act.pending : Lexical(x)
  /\ error.right

\* Every call that ends, in whatever way, leaves behind the frames, the depth, the
\* variables in process and the current template rule its caller had.
RuleSetters ==
  {i \in DOMAIN run : \/ run[i].kind = "foreach" \/ run[i].of = "imports"
                     \/ RestoresRule(i)}
CurrentRule ==
  LET i == CHOOSE i \in RuleSetters : \A j \in RuleSetters : j <= i
  IN IF RuleSetters = {} THEN 0 ELSE IF run[i].kind = "foreach" THEN 0 ELSE i

\* The evaluations of top-level variables, and how many are going on from i on.
Evaluations == {i \in DOMAIN run : run[i].of = "global"}
Since(i) == Cardinality({j \in Evaluations : i <= j})

StacksFollowCalls ==
  /\ Top = Owned(run)
  /\ rule = CurrentRule
  /\ Going =>
       /\ nested = Cardinality({i \in DOMAIN run : run[i].kind \in {"apply", "applied"}})
       /\ run[1].kind = "main" => inProcess = <<>>
       /\ run[1].kind = "globals" /\ Len(run) > 1 =>
            /\ Len(inProcess) = Cardinality(Evaluations)
            /\ \A i \in Evaluations : inProcess[Since(i)] = run[i].var
=============================================================================
