-------------------------------- MODULE SyncML --------------------------------
(***************************************************************************)
(* MdmProxy's commands and the readers of their answers.  A command is one *)
(* request to the MDM server of Windows, which keeps a tree of settings;   *)
(* its answer is an XML document of statuses and, for a Get, of results.   *)
(* Three readers go through the document's nodes, each with a stack of the *)
(* open elements and a current path: ReadXmlStatus for every answer, then  *)
(* ReadXmlValue or ReadXmlStructData for what a Get asked for.             *)
(*                                                                         *)
(* How a command gets to the worker thread is MdmServer's.  Paths, names   *)
(* and values are whole; a URI is the sequence of its tokens.              *)
(***************************************************************************)
EXTENDS Integers, Sequences, SequencesExt, FiniteSets

CONSTANTS
    MdmFolder,        \* URI of an interior node
    MdmNameOrder,     \* the names of its leaves, in the order of the tree
    MdmValues,        \* texts a leaf may hold besides the empty one
    SuccessCodes,     \* texts of the status codes of the server
    FailureCodes,
    Stoi              \* std::stoi: the int of the texts that it accepts

ASSUME SyncMLParametersOK ==
    /\ IsInjective(MdmNameOrder)
    /\ SuccessCodes \cap FailureCodes = {}
    /\ SuccessCodes \cup FailureCodes \subseteq DOMAIN Stoi
    /\ "" \notin DOMAIN Stoi \cup MdmValues

MdmNames == ToSet(MdmNameOrder)
MdmLeaf(name) == Append(MdmFolder, name)
MdmLeaves == {MdmLeaf(n) : n \in MdmNames}

(***************************************************************************)
(* Requests.  "read" is what the command reads out of the answer.          *)
(***************************************************************************)
MdmRequest(verb, uri, meta, data, read) ==
    [verb |-> verb, uri |-> uri, meta |-> meta, data |-> data, read |-> read]

RunSet(uri) ==
    {MdmRequest("Replace", uri, "text/plain", v, "nothing") : v \in MdmValues \cup {""}}
    \cup {MdmRequest("Replace", uri, "int", v, "nothing") : v \in MdmValues \cap DOMAIN Stoi}
    \cup {MdmRequest("Replace", uri, "bool", v, "nothing") : v \in MdmValues \cap {"True", "False"}}

RunGetString(uri) == {MdmRequest("Get", uri, "text/plain", "", "string")}
RunGetBase64(uri) == {MdmRequest("Get", uri, "b64", "", "string")}
RunGetUInt(uri)   == {MdmRequest("Get", uri, "int", "", "uint")}
TryGetNumber(uri) == {MdmRequest("Get", uri, "int", "", "number")}

\* The folder's URI with the suffix "?list=StructData".
RunGetStructData == {MdmRequest("Get", MdmFolder, "text/plain", "", "struct")}

RunExec(uri)                        == {MdmRequest("Exec", uri, "none", "", "nothing")}
RunExecWithParameters(uri, params)  == {MdmRequest("Exec", uri, "chr", params, "nothing")}

RunAddTyped(uri, type) == {MdmRequest("Add", uri, type, "", "nothing")}
RunAdd(path, name)     == {MdmRequest("Add", Append(path, name), "none", "", "nothing")}
RunAddData(uri, type)  == {MdmRequest("Add", uri, type, v, "nothing") : v \in MdmValues}
RunAddDataBase64(uri)  == RunAddData(uri, "b64")

RunDelete(uri) == {MdmRequest("Delete", uri, "none", "", "nothing")}

MdmRequests ==
    RunGetStructData
    \cup UNION {RunAdd(MdmFolder, n) : n \in MdmNames}
    \cup UNION {RunSet(u) \cup RunGetString(u) \cup RunGetBase64(u) \cup RunGetUInt(u)
                \cup TryGetNumber(u) \cup RunExec(u) \cup RunExecWithParameters(u, "START")
                \cup RunAddTyped(u, "node") \cup RunAddDataBase64(u) \cup RunDelete(u) :
                u \in MdmLeaves}

(***************************************************************************)
(* The server: what its tree holds, and how it answers.                    *)
(***************************************************************************)
AbsentNode == [format |-> "absent", value |-> ""]
MdmNode(format, value) == [format |-> format, value |-> value]

\* What cannot succeed; anything may fail.
Impossible(tree, q) ==
    /\ q.uri \in MdmLeaves
    /\ \/ q.verb \in {"Get", "Delete"} /\ tree[q.uri] = AbsentNode
       \/ q.verb = "Add" /\ tree[q.uri] # AbsentNode

CarryOut(tree, q) ==
    CASE q.verb \in {"Add", "Replace"} -> [tree EXCEPT ![q.uri] = MdmNode(q.meta, q.data)]
      [] q.verb = "Delete"             -> [tree EXCEPT ![q.uri] = AbsentNode]
      [] OTHER                         -> tree

\* The nodes that XmlLite makes of a document.
XmlNode(type, name, text) == [type |-> type, name |-> name, text |-> text]
EmptyTag(name) == <<XmlNode("empty", name, "")>>
Tag(name, content) ==
    <<XmlNode("element", name, "")>> \o content \o <<XmlNode("endElement", name, "")>>
TextTag(name, text) == Tag(name, <<XmlNode("text", "", text)>>)

\* An empty value is no element, an empty one, or a pair of tags with nothing
\* in between.
EmptyForms == {<< >>, EmptyTag("Data"), Tag("Data", << >>)}

StatusElement(code) == Tag("Status", TextTag("Cmd", "Get") \o TextTag("Data", code))

ResultItem(uri, value, empty) ==
    Tag("Item", Tag("Source", TextTag("LocURI", uri))
                \o EmptyTag("Meta")
                \o IF value = "" THEN empty ELSE TextTag("Data", value))

\* The leaves that a listing of the folder has, after the folder itself.
ListedLeaves(tree) ==
    SelectSeq([i \in DOMAIN MdmNameOrder |-> MdmLeaf(MdmNameOrder[i])],
              LAMBDA u : tree[u] # AbsentNode)

ResultItems(tree, q, empty) ==
    IF q.uri \in MdmLeaves THEN ResultItem(q.uri, tree[q.uri].value, empty)
    ELSE ResultItem(MdmFolder, "", << >>)
         \o FlattenSeq([i \in DOMAIN ListedLeaves(tree) |->
                          ResultItem(ListedLeaves(tree)[i], tree[ListedLeaves(tree)[i]].value, empty)])

SyncMLDocument(codes, results) ==
    Tag("SyncML", EmptyTag("SyncHdr")
        \o Tag("SyncBody",
               FlattenSeq([i \in DOMAIN codes |-> StatusElement(codes[i])])
               \o results \o EmptyTag("Final")))

(***************************************************************************)
(* The readers: how far one is after some of the nodes.                    *)
(***************************************************************************)
StatusPath == <<"SyncML", "SyncBody", "Status", "Data">>
ResultPath == <<"SyncML", "SyncBody", "Results">>
ItemPath   == Append(ResultPath, "Item")
DataPath   == Append(ItemPath, "Data")
UriPath    == ItemPath \o <<"Source", "LocURI">>

Unread == [pathStack |-> << >>, currentPath |-> << >>, pathFound |-> FALSE, over |-> FALSE,
           codes |-> << >>, value |-> "", uri |-> << >>, items |-> << >>]

\* A start tag; the current path is made from the stack.
OpenElement(r, name, target) ==
    LET path == Append(r.pathStack, name)
    IN  [r EXCEPT !.pathStack = path, !.currentPath = path,
                  !.pathFound = @ \/ path = target]

\* An end tag pops the stack, and the current path stays what it was.
CloseElement(r) == [r EXCEPT !.pathStack = Front(@)]

\* The loop of ReadXmlStatus ends with the first node within the results.
StatusNode(r, node) ==
    IF r.currentPath = ResultPath THEN r
    ELSE CASE node.type = "element"    -> OpenElement(r, node.name, StatusPath)
           [] node.type = "endElement" -> CloseElement(r)
           [] node.type = "text" /\ r.currentPath = StatusPath
                -> [r EXCEPT !.codes = Append(@, Stoi[node.text])]
           [] OTHER -> r

ReadXmlStatus(document) == FoldLeft(StatusNode, Unread, document)

\* ReadXmlValue ends with the first text at its path.
ValueNode(r, node) ==
    IF r.over THEN r
    ELSE CASE node.type = "element"    -> OpenElement(r, node.name, DataPath)
           [] node.type = "endElement" -> CloseElement(r)
           [] node.type = "text" /\ r.currentPath = DataPath
                -> [r EXCEPT !.value = node.text, !.over = TRUE]
           [] OTHER -> r

ReadXmlValue(document) == FoldLeft(ValueNode, Unread, document)

ClearItem(r) == [r EXCEPT !.value = "", !.uri = << >>]

\* Mutant: the current path stays as it is in the other readers.
CloseStructElementOnly(r) ==
    CloseElement(IF r.currentPath # ItemPath THEN r
                 ELSE ClearItem([r EXCEPT !.items = Append(@, <<r.uri, r.value>>)]))

\* An end tag of ReadXmlStructData; that of an item calls the handler.
CloseStructElement(r) ==
    LET called == IF r.currentPath # ItemPath THEN r
                  ELSE ClearItem([r EXCEPT !.items = Append(@, <<r.uri, r.value>>)])
    IN  [called EXCEPT !.pathStack = Front(@), !.currentPath = Front(r.pathStack)]

StructNode(r, node) ==
    CASE node.type = "element"
           -> LET opened == OpenElement(r, node.name, << >>)
              IN  IF opened.currentPath = ItemPath THEN ClearItem(opened) ELSE opened
      [] node.type = "endElement" -> CloseStructElement(r)
      [] node.type = "text" /\ r.currentPath = UriPath  -> [r EXCEPT !.uri = node.text]
      [] node.type = "text" /\ r.currentPath = DataPath -> [r EXCEPT !.value = node.text]
      [] OTHER -> r

ReadXmlStructData(document) == FoldLeft(StructNode, Unread, document)

(***************************************************************************)
(* What a command comes to.                                                *)
(***************************************************************************)
NoRequest == MdmRequest("none", << >>, "none", "", "nothing")
MdmOutcome(kind, value, items) == [kind |-> kind, value |-> value, items |-> items]
Throws(kind) == MdmOutcome(kind, "none", << >>)

\* Mutant: 300 is no error.
IsErrorLate(code) == code > 300
IsError(code) == code >= 300

\* MdmServer::RunSyncML after the document has come.
StatusesFine(document) ==
    LET r == ReadXmlStatus(document)
    IN  r.pathFound /\ \A i \in DOMAIN r.codes : ~IsError(r.codes[i])

\* std::stoi's exceptions are no DMExceptions.
Number(text) ==
    IF text \in DOMAIN Stoi THEN MdmOutcome("returned", text, << >>)
    ELSE Throws("stdException")

\* The rest of a command.  TryGetNumber gives no number instead of a
\* DMException.
Read(q, document) ==
    CASE q.read = "nothing" -> MdmOutcome("returned", "none", << >>)
      [] q.read = "struct"
           -> MdmOutcome("returned", "none", ReadXmlStructData(document).items)
      [] OTHER
           -> LET r == ReadXmlValue(document)
              IN  IF ~r.pathFound THEN Throws("DMException")
                  ELSE IF q.read = "string" THEN MdmOutcome("returned", r.value, << >>)
                  ELSE Number(r.value)

Outcome(q, document) ==
    LET o == IF StatusesFine(document) THEN Read(q, document) ELSE Throws("DMException")
    IN  IF q.read = "number" /\ o.kind = "DMException"
        THEN MdmOutcome("returned", "none", << >>)
        ELSE o

VARIABLES
    mdmTree,      \* the server's tree: leaves to [format, value]
    mdmCommand,   \* the command a caller has just given
    carriedOut,   \* whether the server did it
    mdmOutcome    \* what it came to for the caller

syncmlVars == <<mdmTree, mdmCommand, carriedOut, mdmOutcome>>

SyncMLInit ==
    /\ mdmTree = [u \in MdmLeaves |-> AbsentNode]
    /\ mdmCommand = NoRequest
    /\ carriedOut = FALSE
    /\ mdmOutcome = Throws("none")

SyncMLOK ==
    /\ \A u \in MdmLeaves :
         mdmTree[u].value \in MdmValues \cup {""}
    /\ mdmCommand \in MdmRequests \cup {NoRequest}
    /\ carriedOut \in BOOLEAN
    /\ mdmOutcome.kind \in {"none", "returned", "DMException", "stdException"}

\* The server refuses the document or has no output.
NotServed(q) ==
    /\ UNCHANGED mdmTree
    /\ carriedOut' = FALSE
    /\ mdmOutcome' = Outcome(q, << >>)

\* The request's header and the command have a status each.
Served(q) ==
    \E header, code \in SuccessCodes \cup FailureCodes,
       empty \in IF q.verb = "Get" THEN EmptyForms ELSE {<< >>} :
      /\ carriedOut' = ({header, code} \subseteq SuccessCodes)
      /\ carriedOut' => ~Impossible(mdmTree, q)
      /\ mdmTree' = IF carriedOut' THEN CarryOut(mdmTree, q) ELSE mdmTree
      /\ mdmOutcome' =
           Outcome(q, SyncMLDocument(<<header, code>>,
                        IF carriedOut' /\ q.verb = "Get"
                        THEN Tag("Results", ResultItems(mdmTree, q, empty)) ELSE << >>))

\* The caller goes on with what it was given.
CallerGoesOn ==
    /\ mdmCommand' = NoRequest
    /\ carriedOut' = FALSE
    /\ mdmOutcome' = Throws("none")
    /\ UNCHANGED mdmTree

SyncMLStep ==
    IF mdmCommand # NoRequest THEN CallerGoesOn
    ELSE \E q \in MdmRequests : mdmCommand' = q /\ (NotServed(q) \/ Served(q))

(***************************************************************************)
(* A command returns only if the server did it, and with what the tree     *)
(* holds: the value of its own leaf, or each node of the listing with its  *)
(* own value, in order.  It fails, or gives no number, only if the server  *)
(* did not do it, if the value is empty, or if an int cannot hold it.      *)
(* (MdmServer::RunSyncML, ReadXmlStatus, ReadXmlValue, ReadXmlStructData;  *)
(* DiagnosticLogs' listing relies on a node without data not getting that  *)
(* of the node before.)                                                    *)
(***************************************************************************)
CommandsMeanWhatTheyReturn ==
    LET q == mdmCommand
        held == IF q.uri \in MdmLeaves THEN mdmTree[q.uri].value ELSE ""
        leaves == ListedLeaves(mdmTree)
        gave == /\ mdmOutcome.kind = "returned"
                /\ q.read = "number" => mdmOutcome.value # "none"
    IN  q # NoRequest =>
          IF gave
          THEN /\ carriedOut
               /\ q.read \in {"string", "uint", "number"} => mdmOutcome.value = held
               /\ q.read = "struct" =>
                    mdmOutcome.items =
                      <<<<MdmFolder, "">>>>
                      \o [i \in DOMAIN leaves |-> <<leaves[i], mdmTree[leaves[i]].value>>]
          ELSE carriedOut =>
                 \/ q.read \in {"string", "uint", "number"} /\ held = ""
                 \/ q.read \in {"uint", "number"} /\ held \notin DOMAIN Stoi

===============================================================================
