# A TLA+ development for tDOM

tDOM is a Tcl extension in C: a DOM, an XML parser interface, pull and SAX
parsers, XPath, XSLT, a schema language, DTD validation, and readers and writers
for XML, HTML and JSON. This directory models the parts whose correctness depends
on the *order* of calls, callbacks, scripts and threads, or on tables and stacks
that must stay in step with something else; checks them with TLC on small
instances; and proves some of the results with TLAPS for all values of the
constants. Paths below are relative to the repository's `src` tree.

## 1. The system

### 1.1 Components

| part | source | state | operations |
|---|---|---|---|
| DOM tree | `generic/dom.c`, `dom.h` | per node: parent, first/last child, previous/next sibling, ownerDocument, number; per document: rootNode, documentElement, fragment list, deleted nodes, namespaces, base URIs | create, append, insert, remove, replace, delete, clone, normalize, renumber |
| DOM builder | `generic/dom.c` | parser info: current node, depth, open text buffer, entity stack, namespace and xml:space stacks | expat callbacks, external entities, `dom parse` |
| handles | `generic/tcldom.c` | document commands and tokens, traced variables, the table `sharedDocs` and `refCount` of each document | `dom`, document and node methods, delete, attach, detach |
| building by scripts | `generic/nodecmd.c` | a per-thread stack of current nodes, flags of the document | node commands, `appendFromScript`, `insertBeforeFromScript` |
| document lock | `generic/domlock.c`, `tcldom_EvalLocked` | per lock `lrcnt`, `numrd`, `numwr`, two condition variables; a free list | `readlock`, `writelock`, attach and detach |
| pull parser | `generic/tclpull.c` | three pending states, mode, skip depth, text buffer, input source | `input*`, `next`, `skip`, `find-element`, `reset`, `delete` |
| SAX parser | `generic/tclexpat.c` | lists of Tcl and C handler sets with a status each, content buffer, parse state | handlers, `parse*`, `reset`, `free`, pause |
| schema | `generic/schema.c`, `datatypes.c` | patterns, forward definitions and their counts, the stack of open content models, recovery state, id tables | define, delete, validate events, recover, reset, info |
| DTD validation | `extensions/tnc/tnc.c` | element and attribute declarations, ids, a stack of content model positions | declarations, validation of events and of trees |
| XPath | `generic/domxpath.c` | expression trees, ordered result sets | parse, evaluate, match patterns |
| XSLT | `generic/domxslt.c` | tables of rules, named templates, top-level variables; frames of variables, variables in process, current rule, depth | read a stylesheet, transform |
| readers and writers | `generic/xmlsimple.c`, `domhtml.c`, `domjson.c`, `tcldom.c` | position, open elements, namespace stack | `dom parse -simple`, `-html`, `-json`; `asXML`, `asHTML`, `asCanonicalXML`, `asJSON`, `asTypedList`, `asList` |
| node allocator | `generic/domalloc.c` | blocks with bitmaps, a hash of their bins | alloc, free |
| expat | `expat/` | the XML parser all parsers of this library run on | callbacks, suspend and resume |

### 1.2 How they interact

* A Tcl command enters `tcldom.c`, which finds a node by token and calls
  `dom.c`. Document commands call the same node code with the rootNode and then
  look for the documentElement again. The rootNode is invisible: its children
  have a NULL `parentNode`, like the heads of fragments.
* `appendFromScript` and `insertBeforeFromScript` call **back** into Tcl.
  Everything the script may do (move, delete, nest, delete the whole document,
  fail) happens between two halves of one C function.
* expat calls back into `dom.c`, `tclexpat.c`, `tclpull.c` and `tnc.c`. The pull
  parser suspends it in a callback, and the next method call resumes it; for an
  empty element one callback still arrives afterwards. A SAX parser hands each
  event to any number of handler sets and a schema command; a script may answer
  with an error, `break`, `continue` or `return`, or parse an external entity
  with a parser of its own in the middle of the event.
* A schema command is fed by `dom parse`, by a SAX parser, or by its own methods
  from a script, and calls a report command which decides how to go on.
* A schema is defined by scripts that define, refer forward and may fail; what
  they did is then taken back.
* XSLT evaluates XPath and match patterns over two documents, and itself: the
  instructions nest as C calls, while variables, parameters, the current rule
  and the depth live in global stacks that each call has to leave as it found
  them.
* In a threaded build, interpreters of several threads attach one document. A
  lock per document, recycled from a free list, guards it, but only by
  convention: methods do not take it, scripts do. The table of shared documents
  has a mutex of its own, which is released between looking a document up and
  counting the new reference, and again before the document is freed.

### 1.3 What is hard here, and what makes each part correct

* **Tree.** Four copies of the unlink code tell a fragment from a top-level node
  by comparing pointers; documentElement and ownerDocument are redundant and can
  go stale. Correct: every node in exactly one list, chains sound both ways, no
  cycle, redundant pointers agree.
* **Scripts.** Locals that outlive arbitrary code: `oldLastChild`, `refChild`,
  `doc`, the flag that postpones a deletion. Correct: nothing freed is used, an
  error leaves the tree alone, the tree is sound when all scripts are closed.
* **Builder.** Text is collected over several callbacks and put into the tree by
  whichever comes next; three stacks are pushed in one callback and popped in
  another by comparing depths. Correct: text lands in its element, whole and in
  order; prefixes, xml:space and base URIs follow the open elements.
* **Pull parser.** An event queue of up to three entries, handlers removed and
  put back, buffers cleared in several places. Correct: the calls see exactly
  the events of the document, with their own text and tag.
* **SAX parser.** Handler sets that are skipping or broken off count elements on
  their own; every way out of a parse has its own clean-up. Correct: each set
  hears what it would hear alone; a parse that ends leaves nothing behind.
* **Lock.** Broadcasts, rechecks, barging, recycled locks, nested scripts;
  references checked in one critical section and counted in another. Correct:
  exclusion, exact counts, no lost wakeup, writers not starved; a document is
  freed once, after its last reference.
* **Schema.** A matcher with backtracking over groups, choices, interleaves and
  text constraints, with recovery after any error. Correct: what is accepted is
  what the content model describes, `info expected` names what would be
  accepted, the stack follows the document.
* **Definitions.** Counts of forward definitions, instances of types, postponed
  deletions. Correct: whatever fails, no count and no pointer goes stale.
* **XPath.** Hand-written fast paths for axes, positions and predicates, and
  node numbers renewed lazily. Correct: the node sets and their order are those
  of XPath, patterns match what the path would select.
* **XSLT.** Import precedence as sums of binary fractions, tables written while
  documents include each other; dynamic stacks that must implement lexical
  scoping. Correct: the declaration of highest precedence wins, a variable means
  what the nesting says, every exit restores its caller's stacks.
* **Readers and writers.** Position arithmetic over text that ends anywhere.
  Correct: nothing is lost, what is written reads back the same.

`PROJECT.json` lists the hazards one by one, at the line where each bites, with
the properties aimed at it or the reason why there is none.

## 2. Modules

| module | models | in terms of |
|---|---|---|
| `RWLock` | what the lock promises | sets of readers, writers, announced writers |
| `DomLockRules` | decisions of `domlock.c` on one `domlock` record | operators, shared by the next two |
| `DomLock` | one lock, any number of threads | one action per critical section under `dl->mutex`; a condition wait splits `domLocksLock` in `Lock` and `Recheck` |
| `DocLocks` | documents, the table of shared ones, reference counts, the free list, nested `readlock`/`writelock` scripts | a stack of frames per thread; one action per critical section of the table's mutex or the lock's |
| `DomForest` | what tree mutation promises | sequences of children and fragments |
| `DomTree` | mutation methods of `dom.c` | the pointer fields as functions; one action per method |
| `FromScript` | scripts that build and change a tree, deferred document deletion, on `DomTree` | a stack of frames with the C locals |
| `Builder` | the expat handlers of `dom parse` | one record for `domReadInfo` and the tree; one action per callback |
| `PullStream` | what a pull parser promises | a cursor in the stream of events of a document |
| `PullParser` | `tclpull.c` driven by expat callbacks | one action per callback and per method entry and exit |
| `HandlerSets` | what `break`, `continue` and `return` promise to a handler set | one state and depth per set |
| `TclExpat` | `tclexpat.c`: parses, callbacks, result codes, external entities, the schema | one action per callback and per method |
| `Schema` | the matcher of `schema.c` with recovery, ids, `info expected` | the stack of content model positions; acceptance by derivatives as the reference |
| `TextConstraints` | `datatypes.c`: definition, checks and combinations of text constraints; IDs, keys, key spaces | functions of a text in a buffer; one action per text, key space and end of a document; the types of XML Schema as the reference |
| `SchemaDefs` | definition scripts | patterns, references and counts; one action per definition command |
| `Tnc` | DTD validation | content model positions per open element; languages of content models as the reference |
| `XMLSimple`, `HTMLSimple`, `Json` | the readers that do not use expat | recursive functions over sequences of lexical pieces |
| `Markup`, `Texts` | the writers; reading back what was written | operators; `Texts` chooses one text per behaviour |
| `XPath` | evaluation of location paths and patterns, node numbers | the tree as functions; one action per change and query |
| `XPathParser` | lexer and parser of expressions and patterns | recursive functions; the grammars of XPath and XSLT as the reference |
| `XPathValues` | result sets, their conversions, arithmetic, comparisons, the core functions, `toXPath` | operators on typed values; one application of an operator or function per behaviour; XPath 1.0 as the reference |
| `Stylesheet` | reading stylesheets that import and include each other | the tables of `xsltState`; one action per declaration |
| `XSLT` | a transformation, on `Stylesheet` | the stacks of `xsltState`; one action per instruction and end of one |
| `XSLTNumbers` | `xsl:number` and `xsl:sort` | tokens of formats, walks over the source, a merge sort; XSLT 1.0 as the reference |
| `*_proofs` | theorems about the module named | |
| `MC*` | instances for TLC | `MCReaders`, `MCValidators`, `MCXPath` and `MCXSLT` put several components into one run, one of which is chosen initially |

`DomLock` uses `DomLockRules` and implements `RWLock`; `DocLocks` composes many
locks, built from the same rules, with the document registry. `DomTree`
implements `DomForest`; `FromScript` extends `DomTree` and interleaves its
operations with open scripts. `PullParser` implements `PullStream`, `TclExpat`
implements `HandlerSets` once per handler set. `Texts` composes the readers with
the writers, `XSLT` runs the stylesheets `Stylesheet` has read.

An operator named `XMut...` is the definition `X` with a plausible bug put in.
It is never part of a specification: replacing `X` by it must make a run fail,
which shows that the property checked there depends on that code.

### 2.1 State and actions against the code

* **DomLock.** `dl` is the struct; `pc` says where a thread is in
  `domLocksLock`; `how` is its flag. `Notify` is a broadcast in Tcl and waits
  may end spuriously, so `SpuriousWake` is always possible. `DocLocks` adds
  `docLock` (`doc->lock`), `lockDoc` (`dl->doc`), `pool` (the list
  `domLocks`), `shared` (the table `sharedDocs`), `count` (`refCount`), and
  `frames`: `tcldom_EvalLocked` unlocks the lock it captured, whatever became of
  the document. `refs` is history, the references threads took and have not given
  back, several by one thread if it attached several times. What the code does in
  several critical sections is several actions: `Check` finds a name in the table,
  and `AttachDocument`, `DeleteDoc` or `EvalLocked` act on what was found then
  (`subject`) or on a command of the thread's own, which nothing looks up;
  `DeleteDoc` takes the last reference out of the table, `Free` frees the document
  later (`freeing`); `EvalLocked` reads the lock, `Enter` takes its mutex. `raced`
  is history: documents that left the table between a check and its use, or were
  deleted by a thread without a reference.
* **DomTree.** `tree` is a record of functions `parent`, `prev`, `next`,
  `first`, `last`, `doc`, `frag`, `docel`, one per pointer field; a document
  stands for its rootNode. `live` is what is allocated. `Called` is the
  difference between a node command and a document command
  (`tcldom_DocObjCmd`). Names, values, attributes and namespaces do not affect
  the pointers and are left out. Merging of adjacent text by
  `domAppendNewTextNode` changes no pointer either, so it is a stutter.
* **FromScript.** A frame holds `node`, `old` (`oldLastChild`), `nested`
  (`insideEval`), `ref` and `stored` (the locals of `insertBeforeFromScript`),
  `cmd`, `notEmpty` and `returns` (opened by a node command, of a kind that deletes
  itself when empty, or returns its node); `before` and `moved` are history. `Close` is everything between
  the return of `Tcl_EvalObjEx` and the return to the caller: rollback, flag,
  deferred deletion, relinking, documentElement. Once a frame would touch freed
  memory, `dangling` is set and the behaviour ends. The rollback and document
  deletion free what the recursion of `domFreeNode` would visit.
* **Builder.** `b` has the fields of `domReadInfo` under their names and the
  nodes made so far, numbered in the order of creation, which is document order.
  The other variables are the environment: what the source has open, the parsers
  of external entities, whether the end of an empty tag is due; and history: for
  each piece of character data the node it is content of, for each node the base
  URI of its entity. The guards are those of a well-formed document that may
  break off anywhere.
* **PullParser.** `state`, `nextState`, `next2State`, `mode`, `skipDepth`,
  `cdata`, `currentElm` are the fields of `tDOM_PullParserInfo`; `cdataHandler`
  and `endHandler` say which handlers expat holds; `doc`, `pos`, `expat`, `half`
  are expat: tokens, how many were delivered, its parsing status, and whether
  the end of an empty element is still due although the parser is suspended.
  `call` is the method that is parsing. `seen` is what the script was told, with
  the position of the tag that stopped the parser.
* **TclExpat.** `doc`, `pos`, `upto`, `depth`, `xml`, `halted` are expat;
  `parser`, `parsingState`, `finished`, `final`, `status`, `cdata` are the fields
  of `TclGenExpatInfo`, `outer` the locals of `externalEntityRefHandler` around
  an entity; `wsCheck` is `needWSCheck`, which a reset clears. `setStatus` and
  `continueCount` are per handler set; `at` is the
  callback being walked, one step per set that runs a script, since the script's
  result decides about the rest. `told`, `erred`, `result` are history.
* **Schema.** `m` is the matcher: the chain of `SchemaValidationStack` with
  pattern, position, `hasMatched` and the interleave flags, `lastMatchse`,
  `skipDeep`. One action per probe function; the report command's answer is
  chosen where the code calls it. `Lang` and what is built on it give the
  documents a content model describes without reference to the matcher.
* **TextConstraints.** A definition becomes a sequence of `SchemaConstraint`
  records (`f` is the C function, `data` and `cp` its constraintData); a text is a
  place in a buffer, which the checks read and write. `tables` holds the hash
  tables of IDs and key spaces with their counts. `told` is history, and
  `CodeDeparts` names the definitions and texts for which the code differs from
  the documentation.
* **SchemaDefs.** `d.cps` are the `SchemaCP` records with their references,
  `d.list` is `patternList`, `d.forward` counts forward definitions; `frames` are
  the C frames of definition scripts that are running. Every command that can
  fail has a disjunct for it.
* **Tnc.** `tnc` is the `TNC_Data`: declarations, ids, and the content stack with
  element declaration, active child and the flags of sequences; `cmd` the one of
  the validation command. The defaults of attributes and the events themselves
  come from expat (`WithDefaults`, `HearStart` and the like).
* **XPath.** `number`, `renumber` are `nodeNumber` and `NEEDS_RENUMBERING`; one
  action per change of the tree, step of a query and pattern. An axis is a
  sequence in the order the code visits it, with its shortcuts; the reference is
  the definition of the axes by `order`. In `XPathParser` a text is a sequence of
  lexemes (a name, a number, a star, each punctuation); the reference is
  derivability in the grammars of XPath expressions and XSLT patterns. In
  `XPathValues` a value carries one of the nine types of `xpathResultSet`, numbers
  are counted in hundredths, strings are sequences of characters; `Outcomes` is
  what the code computes, `StdMeaning` what XPath says, and `Strays` names, one
  by one, the operands for which they differ (section 6).
* **Stylesheet, XSLT.** Precedences are numbers with `Bits` binary digits, as
  the code's doubles have 53; the tables bear the names of `xsltState`.
  `frames` is `varFramesStack` together with the part of `varStack` each frame
  owns. `run` is history: the C calls in progress, each with what should be
  visible in it. Which instruction comes next is free. `XSLTNumbers` stands
  beside them: `formats` is the table of formats already read, the source is a
  constant; `StraysFromXSLT` names the instructions for which the code differs
  from XSLT.
* **Texts.** Pieces of text are lexical (`<`, a name, `="`, a reference, white
  space), so that a text can break off wherever the code decides. A behaviour
  reads one text, and may write and read back what it got.

## 3. Runs

Passing runs:

| run | instance | shows |
|---|---|---|
| `lock` | 2 threads that only read, 2 that read or write | `LockConsistent`: exclusion, exact counters; `NoLostWakeup`; `WritersNotStarved` by readers; no deadlock; `ImplementsRWLock` |
| `doclocks` | 2 threads with up to 2 references to each of 2 documents, 2 locks, scripts nested twice that may delete the document they hold | `LocksFollowDocuments`: the free list stays consistent, a lock counts the scripts that run under it, and unless a check was outdated when it was used, references are counted right, the last one alone frees the document, waiting scripts keep their lock; `DeadlockOnlyByNesting` |
| `tree` | 2 documents, 3 elements, 1 leaf; node and document commands | `TreeIsSound`: sibling chains, no cycle, one place per node, owners, documentElement never dangling; `ImplementsForest` |
| `script` | 1 document, 3 elements, 1 leaf, scripts nested twice; both methods, document commands, deletion of the document | `SoundWhenClosed`; `ClosingKeepsChildren`; `ErrorRollsBack`; `DeletionWaits` for exactly the outermost script, and nothing freed is used |
| `pull` | 7 documents, string input, both settings of `-ignorewhitecdata` | `ReportIsOfTheEvent`, `ParserFollowsState` (handlers, released input, the tag behind a text), `ImplementsPullStream`, `DocumentEnds` |
| `sax` | 2 handler sets with every result of every callback, an external entity, a shared schema | `TextIsWhole`; `ParseLeavesNothing`; `ImplementsHandlerSets` |
| `schema` | content models of every combination of quantifiers, groups, choices, interleaves, mixed, recursive, with text, ids, against documents of depth 3 with 3 children; DTDs of every kind of content and attribute; 192 scripts of text constraints with 14,000 texts | `AcceptsExactly`, `ExpectedIsAccepted`, `StateFollowsDocument`; of DTDs `ValidatesExactly`, by the parser and by the command; `TextsComply`: a text is valid by the type, the combination, the IDs and keys, and is left as it was |
| `schemadefs` | scripts of 2 elements, a type, a pattern, a text type, nested 3 deep, each able to fail | `DefinitionsAreSound`: counts, nothing dangles; `InstancesFollowType` |
| `readers` | documents of up to 4 elements through the builder; 120,000 texts through the other readers, what they accept through the writers and back | `TextIsWhole`, `StacksFollowDocument` of the builder; `XMLIsFaithful` (with canonical XML being unique), `HTMLIsFaithful`, `JSONReadsBack` |
| `xpath` | trees of 5 nodes, one change, paths of two steps over every axis, a dozen patterns; texts of up to 8 lexemes; 12,900 applications of operators and functions | `PrecedesIsDocumentOrder`, `QuerySelects`, `MatchIsSelection`; `ParsesAsXPath`; `ComputesAsXPath` |
| `xslt` | up to 4 stylesheets importing and including each other, every order of 3 declarations; then transformations in any order of instructions; 15,300 numberings and sorts | `PrecedenceHolds`, `LookupsAreLexical`, `StacksFollowCalls`; `NumbersAndSorts` |

One run finds a disagreement between the code and what its documentation says;
it was also reproduced with a small Tcl script in a build of the library:

| run | what happens |
|---|---|
| `script_rollback` | the former last child is moved away by the script, which then fails: the rollback starts at the wrong node (ChangeLog:1393-1394 says an error leaves the tree unaltered) |

The passing runs have switches that keep the code out of corners where a property
is known to fail, so that everything else is still checked; section 6 lists what
happens in those corners.

| switch | value | keeps out |
|---|---|---|
| `ReplaceWithFragments` | FALSE | `replaceChild` of a node with a left sibling while there are fragments |
| `AnyUse`, `Sources` | FALSE, `{"input"}` | `find-element` and `reset` with something pending; files and channels |
| `Methods`, `ScriptMay` | see the cfg | `"move"` lets a script move or delete only nodes to which no open frame points, `"moveAny"` lifts that; `"same"` lets a script fill an element that is being filled; `"drop"` lets it delete documents whose outermost script is an `appendFromScript`, `"dropAny"` any; `"return"` lets a command with `-notempty` return its node |
| `LeavesInEntity` | FALSE | `break` and `continue` of a handler set in the callbacks of an external entity, which the entity's end takes back |
| `EmptyCdata` | FALSE | empty CDATA sections in elements declared EMPTY |
| `MixedDecls`, `LateImports`, `StaleMatch` | FALSE | `MixedDecls` only bounds the run; an included sheet that imports after its includer declared something; a union pattern whose uninitialised field is NULL |
| `Untangled` | TRUE | templates that do not declare what they are passed first, variables in the content of a with-param named like another, templates run for a top-level variable that use names of top-level variables |

In `ClosingKeepsChildren` and `ErrorRollsBack` the history fields `before` (the
children when the frame was opened) and `moved` (whether a nested operation took
one of them away) say which children are the old ones.

### 3.1 Bounds and why they are enough

* *Threads.* Two waiting readers and two waiting writers are needed for barging,
  broadcasts that wake more threads than can be admitted, and the hand-over
  between writers and readers; all occur with the four threads of `lock`. The
  counters are proved exact for any number. In `doclocks` one thread is between a
  check and its use, or between taking a document from the table and freeing it,
  while the other does everything else; two references show a document that
  outlives one of them, two documents a lock that is recycled. More threads at one
  lock are what `lock` is for, and the theorems hold for any number.
* *Nodes.* An unlink looks at the node, its two siblings, its parent and the
  document. Three elements and a leaf can be four siblings, three levels, or
  fragments beside a list, in one document or two: every case of those (first,
  middle, last, only, top level, fragment, other document).
* *Frames.* Two scripts give every pair of an outer and an inner one.
* *Documents for the pull parser* are chosen for each queue length: an empty
  element alone, after text and after white space; nested elements of one name
  for `skip`; elements that are looked for and missing; errors at the start and
  behind text.
* *Handler sets.* A set only shares the result code and the buffer with the
  others: one before and one behind it show every way they can disturb it.
  `MaxCount` 1 lets a skipped element contain another.
* *Content models.* The matcher looks at the top of its stack, the one below
  (when a group is popped) and the position inside; three children let a
  repeated particle match, match again and be followed by another one. `MaxStack`
  holds an element, two groups and a nested element with its own.
* *Text constraints.* Every text of up to four characters for the lexical types;
  numerals around each bound; dates and times on both sides of the ends of months,
  leap years, hours and zones; every combination around every other, with
  constraints of its kind in it and one behind it. Two or three texts with IDs, or
  texts and key spaces in every order, and a second document.
* *Definitions.* A forward definition, its use, its completion and a failure
  around it need four particles and three nested scripts.
* *Builder.* Each option record of `MCReaders` opens one group of features (space
  attributes, declarations, entities, CDATA sections, a schema) to documents of
  five or six nodes and three pieces of text: three nested attributes of a kind,
  two entities, text before and behind each kind of node.
* *Texts.* Four pieces reach every state of the readers' loops from every other;
  longer ones are made where a construct needs them (attributes, references,
  tables, JSON of five tokens nested three deep).
* *XPath.* Five nodes: an element with two element children of one name, one of
  another, a text; two steps apply each axis to the results of each other, in
  either direction of its order. One change suffices to make numbers stale.
  Alphabets of eight or nine lexemes each put together what can be confused.
* *Values.* Every operator gets every pair of types, with the values at which its
  cases change: zero, a fraction, halves, NaN, both infinities, the empty string,
  sets of none, one and several nodes that are numbers or not.
* *Numbers and sorts.* Values on both sides of each length of letters (26, 702,
  18278) and of Roman figures; formats with each kind of token, two tokens,
  padding, punctuation around them; a source with every kind of node. Lists of up
  to nine nodes are sorted by insertion, so ten, eleven and twenty-three are merged.
* *Stylesheets.* Four sheets give imports of importing sheets, siblings, and
  includes of importing sheets; four binary digits are enough for them to differ.
  Two variable names, four frames, two variables per frame are a template called
  from a template, with a scope inside, or a forced top-level variable in one.

### 3.2 Fairness and deadlock

* Lock: a woken thread is scheduled and gets the mutex (`Recheck`), and a script
  under a lock ends (`Unlock`). No thread is obliged to ask for a lock, and no
  spurious wakeup is relied on. `WritersNotStarved` says that while a writelock
  is waited for, some writelock is granted: readers cannot starve the writers.
  A given writer may be overtaken by another for ever, since a broadcast lets
  them race, so no property is stated per writer.
* Pull parser: expat works through its input inside one method call, and the
  script keeps calling `next`. `skip`, `find-element` and `reset` are not fair;
  `reset` may happen at any time, so the property lets it end the parse.

`CHECK_DEADLOCK FALSE` is set where the system may stop: nested lock scripts that
wait for each other, frames that may touch freed memory (`script_rollback`),
definitions that have used up their particles (`schemadefs`), and runs in which a
behaviour is one text, query or transformation that ends (`readers`, `xpath`,
`xslt`).

## 4. Proofs

All theorems hold for every value of the constants that satisfies the module's
named assumptions (finite sets of threads; a switch is BOOLEAN; bounds are
natural numbers). Where a theorem has a hypothesis of its own it is one of the
switches of section 3, a corner in which the property is known to fail.

### 4.1 What is proved, and along which argument

**`DomLock_proofs`**, for any finite sets of reading and writing threads. The
inductive invariant is `TypeOK`, `CallersOK` (nobody waits for what it may not
ask for), `Exclusion`, `CountExact`, `WaitersExact` and `NoLostWakeup`. Exclusion
alone is not inductive: it needs `lrcnt` to be exact, and the wakeup property
needs the waiter counts to be exact, since `domLocksUnlock` decides by them. The
argument runs over how each action changes the four sets `Inside(h)` and
`Waiting(h)`, by adding or removing one thread, with the cardinality facts of the
library. From it follow `Consistency`, `SleepersHaveAWaker`, writer preference as
an action property (`WritersFirst`) and that `DomLock` implements `RWLock`
(`Refinement`).

**`DocLocks_proofs`**, for any threads, documents, locks, references and depth of
nesting, with the checks and their uses interleaved in any way. A
lock sees of a state only who holds it and who waits for it, and both are read
off the threads' frames: the frames of a thread hold their locks, but for the
innermost one of a thread that waits. `LockOK` says that a lock's record is right
for given sets of holders and waiters; the invariant says it of each lock, and
that a lock lies in the free list once or serves one document. Each step changes
those sets of one lock by one element. Of the documents the invariant says, for all
that are not in `raced`, that `refCount` is the number of references, that the table
has a document while there are any, and that exactly one thread is about to free one
that has left the table; a thread that waits for the lock of a document while it has
a reference is found to wait for the lock that is still the document's. The locks
need none of this: exclusion and the free list hold also for documents in `raced`,
up to the step that touches freed memory, where a behaviour ends (`crashed`).
`LocksInStep` and
`NoDeadlockWithoutNesting` follow; the second one needs that a sleeping thread
without a holder has a woken one.

**`DomTree_proofs`**, for any number of documents and nodes
(`TreesStaySound`, with hypothesis `~ReplaceWithFragments`). `TreeIsSound` speaks
of what one finds by following `next` and `parent`; the invariant replaces that by
places: each node in use is in one set `H[x]` or fragment list, totally ordered,
of which `prev`, `next`, `first`, `last` are the neighbours and ends. An operation
takes a node out of its place and puts it into another. The library's induction
theorems cannot be used here, so induction over numbers is obtained from
well-foundedness of finite sets (`LeastNumber`, `NumberSet`), and searches along
pointers are shown to be least closed sets (`ReachIsLeast`).

**`PullParser_proofs`**, for all sets of documents and names. `PendingOK`,
`ModeOK`, `HandlersMatchMode` and `Released` are inductive for all inputs and all
uses of the methods; from them follow that a text event is never the last one
scheduled, which is what the comment in method `next` claims when it calls its
TEXT case unreachable (`TextIsNeverLast`), that handlers follow the mode and that
a parse that has ended has released its input (`ParserIsInStep`). `ReportsAreTrue`
and `Refinement` need to know what is in the text buffer (the run of text before
the position, `RunIsTextBefore`) and that the skip depth counts tags as
`PullStream` does. They have the hypothesis `Disciplined`: `find-element` and
`reset` with nothing pending, and no text directly behind white space that
`-ignorewhitecdata` left in the buffer; `Refinement` also `FromStrings`. Without
them the properties fail (section 6).

**`TclExpat_proofs`**, for any documents, entities, number of handler sets,
scripts and result codes. `Collected` says what the buffer holds at each moment
of a callback's walk over the sets, also of the walk around an entity
(`Around`), `SchemaHeld` who uses the schema. `TextReportedWhole` and
`ParsesEndClean` follow. `SetsAreIndependent` maps each set to `HandlerSets`,
where a set has a level and a mode of its own: `Levels` and `Modes` are computed
from the status, `continueCount`, and whether the walk has passed the set. It has
the hypothesis `~LeavesInEntity`: `HandlerSets` says, as doc/expat.xml:879-887 does,
that a set that said `break` hears nothing of the rest of the document, while the
code gives the set that resolved an entity its status from before when the entity
ends. With the hypothesis a set that resolves an entity is listening all the time
until its end (`GiverKeepsListening`).

**`Builder_proofs`**, for any options, names and bounds (`TextStaysInPlace`,
`StacksAreFollowed`). The first is about calls without `-forest`. The property alone is not inductive:
that text merged into a node stays in order needs the tree to grow at its right
edge only. `Tree` says so: the open elements are the last branch (`Nested`), the
text a piece could be merged into is the last node made (`Mergeable`), the pieces
in the nodes and those still collected are numbered in the order of the nodes
(`InOrder`), and what is collected belongs to the current element (`Collected`).
The handlers change a record of twelve fields several times in one step; a lemma
per field says what setting it leaves alone, and a lemma per change of the tree
what that change does to `Tree`.

`StacksAreFollowed` of the same module has an invariant of its own, `StackInv`,
and covers forests. `Stacks` says what the elements and entities that are open
leave behind in the reader: the open elements are a branch of the tree, and the
current node is its end; the entries on the stacks of declarations and of base
URIs are in the order of their depths, so that an end tag that pops from the top
finds all of its own and nothing else; a prefix means the same by the stack as by
the open elements, inside each of them and not only the innermost
(`Namespaces`), which is what makes leaving an element return to the meaning
before; `preserveDeep` counts the open elements that say "preserve",
`defaultDeep` those that say "default" below one that says "preserve"
(`Spaces`). Entities end before the element they began in (`Entities`): expat's
promise, which the base URIs rest on. A tag changes one stack at a time; a lemma
for each stack says what opening and closing do to it (`...Opened`, `...Closed`).
The search for the nearest xml:space that never ends (`LoopsForEver`) leaves the
call hung, and nothing is claimed of it.

**`XSLT_proofs`**, for any variables, programs and bounds (`StacksReturn`). The
invariant says of the calls in progress, besides how many frames, depths and
evaluations they account for: which calls nest in which (`Above`), that the rule a
call has saved is the one that was current below it (`IsRule`), and that the
variables in process are those of the evaluations in progress, innermost first
(`Mirrors`). That currentTplRule needs its own part is the point of the proof:
`xsl:for-each` clears it, templates set it only when they come from
`xsl:apply-templates`, `xsl:apply-imports` sets it without being able to restore
it on an error, and the error path of `ApplyTemplate` puts back the outermost one.
Each action begins a call (`FollowsPush`), ends one (`FollowsPop`), or changes
nothing these see.

`LookupsLexical` shows of the same module, under the hypothesis `Untangled`, that a
variable is looked up where the nesting of the instructions says. The property is
not inductive: it is about the call that runs, and when that call ends its caller
runs again, whose variables were out of sight meanwhile. `LexInv` therefore says of
every call in progress that the frames below it hold its scope (`Well`): a lookup in
the frames it sees (`Seen`, up to the one marked as the end of a template) finds the
place its scope names, the parameters it has not declared yet aside (`Scoped`); what
was passed to a template is all its frame holds at first; where the value of a
variable goes there is no variable of that name. Of the frames as such (`Base`): the
frame of the parameters being evaluated holds only inactive ones, and once the
top-level variables are evaluated none is above the first frame. Each action pushes a
call (`LexPush`), pops one (`LexPop`), or puts another scope in the place of the last
one (`LexReplace`). That a lookup in the caller finds the same again rests on the
frames below a call never changing while it runs (`Agree`). Without `Untangled` the
invariant and the property fail, in the ways section 6 lists. `LexInv` was an
invariant of a run of `MCXSLT` before it was proved.

**`Stylesheet_proofs`**, for any number of sheets, whatever imports and includes
what. `precedence` and `precedenceLowBound` are numbers the code gets by halving;
the declarations of a sheet are read while its imports have taken the upper half
of what lies below it. The invariant says what the sheets being read are to each
other: each one's interval is the lower part of that of the sheet that reads it
(`Chained`), the distance of its bounds is a power of two that allows the imports
still possible (`Gap`), and what has been declared so far lies above or below
these intervals as it stands before or after in the tree of imports (`Ongoing`,
`Before`). From it follows `PrecedencesFollowImports` (`ImportsOrder`). That the
table then keeps the declaration of highest precedence (`HighestHolds`) needs a
second invariant about the fill of each table, and that a declaration read later
is never of lower precedence by right of an include: an included sheet that
imports (`LateImports`) breaks it, and the theorem has its absence as hypothesis.

### 4.2 What is only model-checked, and why

* Liveness: `WritersNotStarved`, `DocumentEnds` (fairness is beyond the prover).
* `Schema`, `Tnc`, `TextConstraints`, `XPath`, `XPathParser`, `XPathValues`, `XSLTNumbers`, `Texts`,
  `Json`, `Markup`, `XMLSimple`, `HTMLSimple` use recursive operators, which the prover's SMT
  backend does not take; and what the properties say of them is induction over
  content models, trees, or texts.
* `ImplementsForest` relates pointers to sequences of children of unbounded length
  under insertion; the set-based facts of `DomTree_proofs` give the order of a
  list, not the sequence.
* `SoundWhenClosed`, `ClosingKeepsChildren`, `ErrorRollsBack`, `DeletionWaits`
  (`FromScript`): the tree between the two halves of a script is deliberately not
  sound, and the operations of `DomTree` act on it.
* Of `PrecedenceHolds` its part about the choice of a rule (`RuleIsChosen`): what
  the code keeps is the first match in a list that each insertion walks, a fold
  over the list whose value for all lists is induction over data.
* `DefinitionsAreSound` and `InstancesFollowType`: not proved yet.

## 5. Not modelled

* Of text constraints: `match`, `regexp`, `setvar`, the variants that ask Tcl what a
  number or a boolean is, type commands outside of schemas. The node allocator,
  `schemadtx`, `domhtml5.c` (gumbo reads the text), the Tcl library scripts and
  initialisation.
* expat: the modules state what tDOM's code relies on, as actions of the
  environment. Its encodings, DTD processing and buffers are not modelled.
* Of the DOM: cloning, `copyTo`, `normalize`, attributes and the id table, the
  methods that only read; traced variables and node tokens of the Tcl layer.
* Of XPath: variables in expressions, `key()`, `generate-id()`,
  `unparsed-entity-uri()`, functions defined by scripts, numbers of more than two
  decimals or six digits, the cache of expressions. Of XSLT: the result tree, keys,
  attribute sets, output, `document()`, `format-number()`, extension scripts. The
  default of an `xsl:param` is a value without content: content is executed in a
  frame of its own, as the content of an `xsl:variable` is, before the parameter is
  entered (domxslt.c:2529-2541, 4695).
* Failing allocations, among them the way out of an external entity for which expat
  has no buffer (tclexpat.c:3809-3816), where the parser is not restored.
* Of schemas: key spaces and recovery from key errors in the matcher (`Schema` has
  their particles, `TextConstraints` their tables), attributes in definitions, the
  validation drivers. Of DTDs: entities inside entities, the texts of reports.

The next steps: cloning and attributes of `dom.c`; the result tree of XSLT.

## 6. Defects met while modelling

Each was reproduced in a build of the library unless marked *(read)*. They are no
runs of their own, most of them because no sentence of the documentation is about
them; the models state the behaviour of the code, and where a property fails
because of it, a switch of section 3 or the choice of inputs keeps a run out.

**Trees, scripts, locks.**
* A document deleted by the script that has locked it: the lock goes back to the
  free list held, and the next document is born locked (domlock.c:138).
* `replaceChild` while there are fragments leaves `previousSibling` of the old
  child; a later move of it corrupts the tree (dom.c:4164, `ReplaceWithFragments`).
* Deleting the document inside `insertBeforeFromScript` or inside a document
  command's script is followed by uses of freed memory (nodecmd.c:1002).
* When a node command moves the document element away, `rootNode->firstChild`
  takes its place, a comment as well as an element (dom.c:3812).
* An element moved to another document by its own script: the flag is cleared on
  the wrong document and the first one is never freed.
* Attaching, locking or detaching a document by its name looks the name up in one
  critical section and acts in another, or none (tcldom.c:8057-8075 with 8421-8431
  and 8349-8359; 6146-6160, 6612-6619): when the last reference is given back
  between, the document is registered or locked after it has been freed, and a
  document that is registered before it is freed stays in the table *(read)*. In
  `DocLocks` these are the documents in `raced`; without that exception
  `ReferencesCounted` fails. `delete` by a thread that only knows the name takes a
  reference of somebody else, and a command a thread has for a document is
  believed without a look at the table.
* A node command created with `-notempty` and called with `-returnNodeCmd` deletes
  its empty node and then makes a command for it (nodecmd.c:530-538). With
  `"return"` in `ScriptMay` the run `script` finds it in `DeletionWaits`.
* `insertBeforeFromScript` inside the script of another one on the same element
  and reference child relinks a list that is already cut (nodecmd.c:993).
* A rollback frees nodes whose Tcl commands stay (nodecmd.c:900); a failing
  document command returns before looking for the documentElement again
  (tcldom.c:6593); tokens of deleted nodes are accepted (tcldom.c:922); base URIs
  are freed before the deleted nodes that need them (dom.c:3137).
* A failing node command leaves node numbers out of order (nodecmd.c:542).

**Pull parser.** `find-element` at an empty element reports that element's end tag
afterwards (tclpull.c:840) and parses on behind the final chunk of a file (656);
`reset` forgets only one of two pending states (916); white space before an end
tag that is to be ignored is glued to the next text; a short read from a pipe
counts as the end of the input (450).

**SAX parser.** The end of an external entity sets the status of the handler set that
resolved it back (tclexpat.c:3873): a `break` inside suppresses that set's scripts
only until then, where doc/expat.xml:879-883 says "for the further parsing", and a
`continue` for the element around the reference is forgotten as well. With
`LeavesInEntity` TRUE the run `sax` finds it: a set breaks in the entity, and at the
entity's end `ImplementsHandlerSets` is violated. `reset` forgets
`-ignorewhitecdata` while `cget` still answers 1 (554). When expat has no buffer for
an external file the parser of the entity stays installed (3809-3816), and the test
for a read error compares an unsigned number with 0 (3818), both *(read)*. The
status of a `break` or `continue` survives a reset and the next document (2482); `-final 0` with `parsefile` or `parsechannel` leaves
the parser unfinished (857); `return` with `-final 0` makes the next chunk fail;
after an error of a text callback the start callback still runs, and a later
`return` hides the error (2496); text is reported after the `startns` callback
that follows it; `return` and `break` of an external entity script give expat's
error; `-notationdeclcommand` without a base URL crashes; renaming the parser in a
callback bypasses the check of `free` and keeps the schema in use (4784); the
check for a shared schema that is busy is only made at the first chunk (843).

**Builder.** `-forest` moves text behind a top-level element into the next element
(dom.c:1644) and crashes with `-baseurl` (1284); nested `xml:space="default"` can
loop for ever (1619, the outcome `"hung"`); comments and processing instructions of
an external DTD land in the document with `-useForeignDTD`; white space before an
external entity reference at the start of an element is lost; with `-keepEmpties`
and a schema `only_whites` is not initialised (1841); `break` of an external
entity script ends in success without a document.

**Schema matching.** An interleave whose `+` child was there, followed by another
particle, is rejected (schema.c:1765); `matchText` skips a particle when it comes
out of a group (2911); text that may be empty is mandatory at the start of an
element; nested optional groups with text pop an empty stack; an interleave with
two mandatory children and the answer "ignore" loops for ever; "vanish" inside a
keyspace panics; a flag stays set after MISSING_TEXT was ignored (1215); a probed
attribute overwrites its length or crashes (2270); an ignored unexpected root
element finishes the validation (1883, against doc/schema.xml:1390). `info expected`
omits what follows a choice whose last group is not empty while another may be
(3992-4024), and `<elementend>` behind an interleave.
**Schema definitions.** A keyspace script that fails leaves `currentEvals` raised
(6977); a failing `define` after it completed a forward definition leaves freed
patterns; a failed text type leaves a dangling one (860); notes of freed instances
stay in a forward type (749, 811, 5721); recursive element types take a copy of a
content that is not finished.

**Text constraints** (`CodeDeparts`, all *(read)*). `base64` has an assignment for a
comparison (datatypes.c:1689): every character counts, and the text is overwritten
with plus signs; `long` compares numbers of twenty digits with a bound of nineteen,
so that all of nineteen digits and some of twenty pass; `number` accepts `+` and
`.`; `hexBinary` refuses the empty text; `duration` takes a part repeated and
numbers with blanks; `split` into nothing fails, and `split whitespace` is refused
although doc/schema.xml names it; lengths below 1 are reported in the result but
accepted; `whitespace` inside of `whitespace` overwrites the buffer of what follows
it; an ID entered by an alternative of `oneOf` that then fails stays; a `keyref`
command in front of everything else about its key space leaves `active`
uninitialised (1660).

**DTD validation.** A repeated sequence that begins with a group that may be empty
takes any element for a match when it starts again; an empty CDATA section is
accepted in an EMPTY element (`EmptyCdata`); `#FIXED` is checked for CDATA only; the
last name of an ENTITIES default is never checked *(read)*; the same undeclared
entity as the default of two attributes dereferences NULL (tnc.c:958-967); the
content stack grows by the size of a pointer; two messages are joined by a missing
comma (231); `getValidateCmd` in the middle of a document makes the next end tag
read before the stack.

**XPath and patterns.** An operator name directly before "(" is a function
(`4 mod(3)`), and `--1` is refused; an operator name behind a star that is a name
behind an operator is refused; numeric functions as predicates of a pattern count
as true or false (`a[count(b)]`); the pattern `child::p:e[2]` crashes; patterns
`a[last()]/b[1]` and `a[2][1]` never match (domxpath.c:5773); `preceding::` misses
top-level nodes before the document element (4279); `@y/following::*` of an
attribute of an element without children crashes (4225); `attribute::node()`,
`text()/descendant-or-self::node()` select nothing; `processing-instruction('ab')`
matches the target `a`; patterns `child::text()` never match.

**Values of XPath** (`Strays`). `string()` of a double without a fraction strips its
zeros: `string(50+50)` is "1"; CDATA sections are not in the value of the element
around them *(read)*; "-.5" is NaN; `mod` truncates its operands, and an infinite
divisor gives NaN; `!=` leaves out nodes that are no numbers, and is false for NaN;
an empty set is not less than `true()`, and `true()` before a set is compared the
wrong way round; a number before a set is compared with the first number only, the
other numbers with the one before (4898-4945); `substring()` with an infinite length
may be empty, since an infinity is cast to an integer *(read)*; `lang()` looks up to
the first hyphen only; `name()` of a processing instruction is cut at 79 characters
*(read)*; `namespace::p` selects every prefix with that URI, `namespace::*` also a
default that was undeclared; `toXPath` may count a text that equals the element's
name, and has no step for CDATA sections *(read)*.

**XSLT.** A passed parameter one template activated stays visible to the next
node's template that does not declare it; a variable named like a parameter that
was passed and not declared, or inside the content of a later with-param, is
"already declared"; the contents of top-level variables shadow each other
depending on the order of a hash table, and a with-param using one not evaluated
yet is "circular"; a top-level variable forced inside a template sees its
variables (all `Untangled`). Declarations imported by an included stylesheet
override those of the including one (`LateImports`); `xsl:apply-imports` takes the
first of equally good rules, `xsl:apply-templates` the last; 54 sibling imports
exhaust the precision of a double (`Bits`); `strip-space p:*` beats
`preserve-space p:a`; circular imports overflow the stack; the first part of a
union pattern has an uninitialised field (`StaleMatch`).

**Numbers and sorts** (`StraysFromXSLT`). `level="single"` ignores `from` (domxslt.c
3570-3580: `start` is never set); a current node that matches `from` is not counted;
attributes count the attributes before them; the root is never reached; the name of
the current node is read with the namespaces of the stylesheet, so that a node in a
default namespace is not counted at all, and an attribute without `count` crashes
(3523); a processing instruction counts those whose target its own begins with.
Formats: `1a` is refused, but taken when the compiled stylesheet is applied again,
because the table keeps what was read (802); `1.0` loses its second token; `02` pads;
`.` is not written behind the number; a format of zeros only reads in front of the
tokens (907). NaN is 0, a negative number is written. A first sort key that asks for
`position()` gets the order the later keys have made (3375).

**Readers and writers.** `-simple`: input that ends behind a start tag is accepted
with its elements open (xmlsimple.c:1025), content behind the root's end tag is
ignored, duplicate attributes are accepted, the same declaration twice on one
element crashes, a value without quotes takes the "/" of an empty tag. `-html`: an
end tag before the first element ends the reading, a final text decides whether
open elements are accepted, an unterminated script loses its text, `</tr>` in a
nested table closes the inner table, a "<" within two characters of the end looks
behind the end (domhtml.c:2585). `asJSON` of an object whose first child is a text
starts with a comma (tcldom.c:3139); `asTypedList` of an untyped element without
children crashes; `asXML` with `cdataSectionElements` does not split "]]]>"
(2706-2720); a JSON high surrogate followed by any `\u` escape is taken as a pair.
