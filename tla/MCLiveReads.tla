---------------------------- MODULE MCLiveReads ----------------------------
(***************************************************************************)
(* A call that visits the database and one that answers from the snapshot, *)
(* of which an earlier one may be stored; the database has up to two       *)
(* tables, and somebody alters it.                                         *)
(***************************************************************************)
EXTENDS LiveReads, TLC

CONSTANTS Users, Orders, Email, Note, visitor, reader

TheTables == {Users, Orders}
TheColumns == {Email, Note}
Pii == {Email}
AllKinds == {"postgresql", "mysql", "oracle", "hive", "mongodb", "doris", "kafka"}

(* Nothing, one table, two, and the first one dropped or altered.  Orders  *)
(* have no note: a model that names one has made it up.                    *)
Contents ==
  {{},
   {<<Users, Email>>, <<Users, Note>>},
   {<<Users, Note>>, <<Orders, Email>>},
   {<<Users, Email>>, <<Orders, Email>>}}

Callers == {visitor, reader}
Offered ==
  (visitor :> {"refresh", "test", "list_topics", "topic_schema"}) @@
  (reader :> {"suggest", "ddl", "preview"})

=============================================================================
