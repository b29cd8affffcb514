---------------------------- MODULE MCPullParser ----------------------------
(* Small documents for PullParser: text before an empty element, mixed        *)
(* content, nested elements of one name, white space, and broken ones.        *)
EXTENDS PullParser

Tok(k, n) == [k |-> k, n |-> n]
S(n) == Tok("start", n)
E(n) == Tok("end", n)
M(n) == Tok("empty", n)
T == Tok("text", "")
W == Tok("white", "")
Bad == Tok("bad", "")

OnlyRoot == <<M("a")>>
Mixed == <<S("r"), T, M("a"), T, E("r")>>
Nested == <<S("r"), S("a"), S("a"), M("a"), E("a"), T, E("a"), M("b"), E("r")>>
Indented == <<S("r"), W, S("a"), T, W, E("a"), W, M("a"), E("r")>>
Siblings == <<S("r"), M("a"), S("b"), T, M("a"), E("b"), E("r")>>
Broken == <<S("r"), T, M("a"), S("b"), T, Bad>>
BrokenAtOnce == <<Bad>>
\* No document has an element with white space only that text of its parent follows,
\* <a> </a>text: with -ignorewhitecdata the white space comes back in that text.
MCDocuments == {OnlyRoot, Mixed, Nested, Indented, Siblings, Broken, BrokenAtOnce}
MCNames == {"a", "b", "z"}
=============================================================================
