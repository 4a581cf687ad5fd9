------------------------------- MODULE Documents -------------------------------
(***************************************************************************)
(* The guids in the documents that requests and event handlers keep in     *)
(* MongoDB (typescript/backend/mongodb, GuidExtensions.ts, GuidScalar.ts). *)
(*                                                                         *)
(* A decorator registers the custom type of a property and, for the whole  *)
(* process, replaces toBSON of the class of its values: what is written    *)
(* depends on the custom type that was registered last, what is read on    *)
(* the one of the property, and on the type the collection has in the      *)
(* context that all work shares (RequestContext).                          *)
(*                                                                         *)
(* Custom types are for Guid.  Those of an application are external: here  *)
(* they keep the bytes as they are, and else do what GuidCustomType does.  *)
(* MongoDB and its driver are external: the driver calls toBSON of every   *)
(* value that has one, and writes any other object as it is.               *)
(***************************************************************************)
EXTENDS RequestContext, FiniteSets

CONSTANTS
  Properties,      \* of the documents
  CustomTypes,
  GuidCustomType,
  Decorations,     \* Decorations[type][p]: custom type of p, or Nothing
  Guids,           \* the guids in use, each by its bytes
  Contents,        \* the documents that are written
  MaxDocuments     \* bound: documents of the collection

Bytes == [0..15 -> 0..255]

ASSUME DocumentsAssumption ==
  /\ GuidCustomType \in CustomTypes
  /\ Nothing \notin CustomTypes
  /\ Decorations \in [Types -> [Properties -> Maybe(CustomTypes)]]
  /\ Guids \subseteq Bytes
  /\ MaxDocuments \in Nat

VARIABLES
  loaded,      \* types whose module is loaded
  registered,  \* registered[type][p]: custom type of p, or Nothing
  toBSON,      \* custom type whose toBSON the prototype of Guid has, or Nothing
  stored,      \* the documents of the collection
  read         \* read[w]: the document w has read last, or Nothing

documentVars == <<loaded, registered, toBSON, stored, read>>
everything == <<vars, documentVars>>

-----------------------------------------------------------------------------
(* Values.                                                                 *)

Falsy == [kind |-> "falsy"]
Guid(bytes) == [kind |-> "guid", bytes |-> bytes]
Binary(bytes) == [kind |-> "binary", bytes |-> bytes]
RawObject(bytes) == [kind |-> "object", bytes |-> bytes]
List(items) == [kind |-> "list", items |-> items]
Throws == [kind |-> "throws"]

Each(list, Op(_)) == List([i \in DOMAIN list.items |-> Op(list.items[i])])

EmptyGuid == Guid([i \in 0..15 |-> 0])

\* A literal of a mutation is a string with a guid, or is no string.
ParseLiteral(literal) == IF literal \in Guids THEN Guid(literal) ELSE Falsy

Scalars == {ParseLiteral(literal) : literal \in Maybe(Guids)}
Values == Scalars \cup {List(<<a, b>>) : a, b \in Scalars}

ASSUME ContentsAssumption == Contents \subseteq [Properties -> Values]

\* The first three parts of a guid the other way round.
Place(i) == IF i \in 0..3 THEN 3 - i
            ELSE IF i \in 4..5 THEN 9 - i
            ELSE IF i \in 6..7 THEN 13 - i ELSE i

ToMUUID(bytes) == [i \in 0..15 |-> bytes[Place(i)]]

BinaryToGuid(bytes) == [i \in 0..15 |-> bytes[Place(i)]]

\* serializer.toBSON, for the custom type of the prototype; without it the guid
\* is an object as any other.
ToBSON(value) ==
  IF value = Falsy THEN value
  ELSE IF toBSON = Nothing THEN RawObject(value.bytes)
  ELSE Binary(IF toBSON = GuidCustomType THEN ToMUUID(value.bytes) ELSE value.bytes)

\* The driver, on a property of a document that is inserted.
Written(value) == IF value.kind = "list" THEN Each(value, ToBSON) ELSE ToBSON(value)

\* binaryToGuid iterates over a buffer, which only a Binary has.
FromBSON(customType, value) ==
  IF value = Falsy THEN EmptyGuid
  ELSE IF value.kind # "binary" THEN Throws
  ELSE Guid(IF customType = GuidCustomType THEN BinaryToGuid(value.bytes) ELSE value.bytes)

\* Falsy values are left alone, as are those of a property with no custom type.
DeserializeProperty(type, p, value) ==
  LET FromItem(item) == FromBSON(registered[type][p], item)
  IN  IF value = Falsy \/ registered[type][p] = Nothing THEN value
      ELSE IF value.kind = "list" THEN Each(value, FromItem)
      ELSE FromItem(value)

MapDocument(type, document) ==
  [p \in Properties |-> DeserializeProperty(type, p, document[p])]

\* A value that cannot be read, and the document it is in.
Thrown(value) ==
  value = Throws \/ (value.kind = "list" /\ \E i \in DOMAIN value.items : value.items[i] = Throws)

Fails(document) == \E p \in Properties : Thrown(document[p])

\* Mapped when it is read into the buffer and again when it is handed out.
MappedAgain(document) ==
  IF collectionType = Nothing THEN document
  ELSE MapDocument(collectionType, MapDocument(collectionType, document))

\* A document of a cursor is mapped once, whether it is the one that next() was
\* called for or one of the others in the buffer.
NextDocument(document) ==
  IF collectionType = Nothing THEN document ELSE MapDocument(collectionType, document)

-----------------------------------------------------------------------------
(* The collection.                                                         *)

\* The custom types that the types in S have.
Used(S) == {Decorations[type][p] : type \in S, p \in Properties} \ {Nothing}

DocumentsInit ==
  /\ Init
  /\ loaded = {}
  /\ registered = [type \in Types |-> [p \in Properties |-> Nothing]]
  /\ toBSON = Nothing
  /\ stored = {}
  /\ read = [w \in Work |-> Nothing]

\* Each property starts a map of its own.
RegisteredLast(type) ==
  [p \in Properties |->
     IF p = CHOOSE q \in Properties : Decorations[type][q] # Nothing
     THEN Decorations[type][p] ELSE Nothing]

\* register adds a property to those that the type has.
Registered(type) == Decorations[type]

\* A module is loaded: the decorators of its type run, one of them last.
Load(type) ==
  /\ type \notin loaded
  /\ loaded' = loaded \cup {type}
  /\ registered' = [registered EXCEPT ![type] = Registered(type)]
  /\ \/ toBSON' \in Used({type})
     \/ Used({type}) = {} /\ UNCHANGED toBSON
  /\ UNCHANGED <<vars, stored, read>>

\* insertOne; the document remembers what it was and which types were loaded.
Insert(w, document) ==
  /\ pc[w] = "running"
  /\ wanted[w] # Nothing
  /\ Cardinality(stored) < MaxDocuments
  /\ stored' = stored \cup
       {[was |-> document, known |-> loaded, bson |-> [p \in Properties |-> Written(document[p])]]}
  /\ UNCHANGED <<vars, loaded, registered, toBSON, read>>

\* A document of a cursor.
ReadNext(w, d) ==
  /\ ReadDocuments(w)
  /\ read' = [read EXCEPT ![w] =
       [of |-> d, as |-> wanted[w], got |-> NextDocument(d.bson),
        sure |-> w \notin mistyped, twice |-> FALSE]]
  /\ UNCHANGED <<loaded, registered, toBSON, stored>>

\* toTypedArray maps what the cursor has mapped.
ToTypedArray(w, type, d) ==
  LET once == NextDocument(d.bson)
  IN  /\ ReadDocuments(w)
      /\ read' = [read EXCEPT ![w] =
           [of |-> d, as |-> type,
            got |-> IF Fails(once) THEN once ELSE MapDocument(type, once),
            sure |-> collectionType = Nothing, twice |-> collectionType # Nothing]]
      /\ UNCHANGED <<loaded, registered, toBSON, stored>>

DocumentsNext ==
  \/ \E type \in Types \ loaded : Load(type)
  \/ /\ UNCHANGED documentVars
     /\ \/ \E r \in Requests :
             \/ \E t \in Tenants : Enter(r, t)
             \/ Dispatch(r) \/ ResolveDatabase(r)
        \/ \E h \in EventHandlers, t \in Tenants : HandleEvent(h, t)
        \/ \E w \in Work :
             \/ \E type \in loaded : OpenCollection(w, type) \/ OpenCollectionWithOptions(w, type)
             \/ Finish(w)
  \/ \E w \in Work :
       \/ \E document \in Contents : Insert(w, document)
       \/ \E d \in stored :
            \/ ReadNext(w, d)
            \/ \E type \in loaded : ToTypedArray(w, type, d)

DocumentsSpec == DocumentsInit /\ [][DocumentsNext]_everything

-----------------------------------------------------------------------------
(* Properties.                                                             *)

\* A property with a custom type is read as it was written, in lists too, when
\* this custom type was the only one in use at the time: whichever types were
\* loaded since, and whichever type wrote it.  Excepted are falsy items of a
\* list, and work that is not sure of its type: with a cursor because of other
\* work or of options, with toTypedArray because the collection has a type.
NoGaps(value) == value.kind = "list" => \A i \in DOMAIN value.items : value.items[i] # Falsy

AsWritten(result) ==
  \A p \in Properties :
    LET customType == Decorations[result.as][p]
    IN  /\ customType # Nothing
        /\ Used(result.of.known) = {customType}
        /\ NoGaps(result.of.was[p])
        => result.got[p] = result.of.was[p]

ReadsWhatWasWritten == \A w \in Work : read[w] # Nothing /\ read[w].sure => AsWritten(read[w])

\* Reading fails only on what was written before any type with a custom type
\* was loaded, and in toTypedArray of a collection that has a type.
FailedReads ==
  \A w \in Work : read[w] # Nothing /\ Fails(read[w].got) =>
    Used(read[w].of.known) = {} \/ read[w].twice
=============================================================================
