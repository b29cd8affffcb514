CONSTANTS
  Options <- MCOptions
  Prefixes = {"", "p"}
  Uris = {"", "u", "v"}
  MaxEntities = 1
  XMLTexts <- MCXMLTexts
  HTMLTexts <- MCHTMLTexts
  JSONTexts <- MCJSONTexts
  XMLWriters <- MCXMLWriters
  HTMLWriters <- MCHTMLWriters
  TypedLists <- MCTypedLists
  AttributeLists <- MCAttributeLists
  Marks = {"t", "w"}
  NamePrefixes = {"", "p"}
  Letters = {"a", "b", "p", "table", "tr", "td", "script", "option", "br", "html", "div", "form", "body", "x"}
  CustomNames = {"x-y"}
  MaxNesting = 3
SPECIFICATION ReadersSpec
INVARIANTS TextIsWhole StacksFollowDocument XMLIsFaithful HTMLIsFaithful JSONReadsBack
CHECK_DEADLOCK FALSE
