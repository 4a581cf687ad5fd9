----------------------------- MODULE MCDocuments -----------------------------
(* Two document types for one collection: one is decorated with Guid's own   *)
(* custom type, the other with one of the application, on one property only. *)
EXTENDS Documents, TLC

CONSTANTS t1, r1, h1, T1, T2, ours, id, other

MCDecorations ==
  T1 :> (id :> GuidCustomType @@ other :> GuidCustomType) @@
  T2 :> (id :> Nothing @@ other :> ours)

guid == [i \in 0..15 |-> i + 1]

MCContents ==
  {id :> Guid(guid) @@ other :> List(<<Guid(guid), Guid(guid)>>),
   id :> List(<<Guid(guid), Falsy>>) @@ other :> Guid(guid),
   id :> Falsy @@ other :> Falsy}

MCGuids == {guid}
=============================================================================
