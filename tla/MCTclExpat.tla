----------------------------- MODULE MCTclExpat -----------------------------
EXTENDS TclExpat
\* Elements, text and an entity; the declarations of a document type; what else
\* an element may contain; documents that end early.
MCDocs == {<<"start", "text", "startns", "start", "comment", "end", "endns", "white", "end">>,
           <<"start", "white", "text", "ext", "text", "end">>,
           <<"xmldecl", "notstandalone", "startdoctype", "entitydecl", "notation",
             "elementdecl", "attlist", "enddoctype", "start", "end">>,
           <<"start", "start", "text", "default", "end", "pi", "startcdata", "text",
             "endcdata", "bad">>,
           <<"encoding">>}
MCEntities == {<<"text", "start", "end", "text">>, <<"start", "text", "bad">>,
               <<"encoding">>}
\* One set has scripts for everything, the other for elements and their content.
MCScripts == [i \in 1 .. N |-> IF i = 1 THEN Events ELSE {"start", "text", "ext"}]
=============================================================================
