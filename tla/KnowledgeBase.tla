----------------------------- MODULE KnowledgeBase -----------------------------
(***************************************************************************)
(* The knowledge base: articles in the operational file and, beside it,    *)
(* the directory of attached files. A row of knowledge_attachments names a *)
(* file; the file is written first, the row in a transaction after it, and *)
(* neither is part of a backup of the other.                               *)
(*                                                                         *)
(*   db      the operational file: articles, and the attachments' rows     *)
(*   copies  backups of it                                                 *)
(*   files   the upload directory: which names exist, and how much of them *)
(*   upload  the request that attaches a file                              *)
(*   died    the process was killed while a file was being attached        *)
(*   noted   names that were ever on record                                *)
(*                                                                         *)
(* Requests that write hold the server's lock, so one upload runs at a     *)
(* time; what may happen between its steps is an error or a crash.         *)
(* Title, text, category and tags of an article change in one transaction  *)
(* with nothing beside it and are left out, and so is update_article.      *)
(***************************************************************************)
EXTENDS Integers, FiniteSets

CONSTANTS
  FileNames,       \* names given to files (uuid4: never twice)
  Elsewhere,       \* the file of a row that came with a foreign database
  MaxArticles, MaxAttached, MaxBackups   \* bounds

ASSUME KnowledgeBounds ==
  /\ Elsewhere \notin FileNames
  /\ MaxArticles \in Nat /\ MaxAttached \in Nat /\ MaxBackups \in Nat

VARIABLES db, copies, files, upload, died, noted
knowledgeVars == <<db, copies, files, upload, died, noted>>

Idle == [at |-> "idle"]
NewFile == [articles |-> 0, deleted |-> {}, rows |-> {}, given |-> 0]

InitKnowledge ==
  /\ db = NewFile /\ copies = {} /\ files = [f \in {} |-> "whole"]
  /\ upload = Idle /\ died = FALSE /\ noted = {}

Readable(a) == a \in 1 .. db.articles /\ a \notin db.deleted

-----------------------------------------------------------------------------

CreateArticle ==
  /\ upload = Idle /\ db.articles < MaxArticles
  /\ db' = [db EXCEPT !.articles = @ + 1]
  /\ UNCHANGED <<copies, files, upload, died, noted>>

\* soft_delete_article: the row of the article, its attachments and their files stay.
DeleteArticle(a) ==
  /\ upload = Idle /\ Readable(a)
  /\ db' = [db EXCEPT !.deleted = @ \cup {a}]
  /\ UNCHANGED <<copies, files, upload, died, noted>>

\* add_attachment: the article is looked up, the content is checked (a file that
\* fails is refused before anything is written), and a name is drawn.
Begin(a, f) ==
  /\ upload = Idle /\ Readable(a) /\ db.given < MaxAttached
  /\ f \notin DOMAIN files \cup noted
  /\ upload' = [at |-> "open", article |-> a, file |-> f]
  /\ UNCHANGED <<db, copies, files, died, noted>>

Holding(f, much) == [g \in DOMAIN files \cup {f} |-> IF g = f THEN much ELSE files[g]]

Open ==
  /\ upload.at = "open"
  /\ files' = Holding(upload.file, "part") /\ upload' = [upload EXCEPT !.at = "write"]
  /\ UNCHANGED <<db, copies, died, noted>>

Write ==
  /\ upload.at = "write"
  /\ files' = Holding(upload.file, "whole") /\ upload' = [upload EXCEPT !.at = "record"]
  /\ UNCHANGED <<db, copies, died, noted>>

\* Mutant: the row is inserted once the file exists, before its bytes are written.
RecordEarly ==
  /\ upload.at \in {"write", "record"}
  /\ db' = [db EXCEPT !.given = @ + 1,
              !.rows = @ \cup {[id |-> db.given + 1, article |-> upload.article, file |-> upload.file]}]
  /\ noted' = noted \cup {upload.file} /\ upload' = Idle
  /\ UNCHANGED <<copies, files, died>>

\* KnowledgeRepository.add_attachment: the row and the article's date, committed.
Record ==
  /\ upload.at = "record"
  /\ db' = [db EXCEPT !.given = @ + 1,
              !.rows = @ \cup {[id |-> db.given + 1, article |-> upload.article, file |-> upload.file]}]
  /\ noted' = noted \cup {upload.file} /\ upload' = Idle
  /\ UNCHANGED <<copies, files, died>>

\* Any exception takes the file away again, whether it exists yet or not.
Fail ==
  /\ upload # Idle
  /\ files' = [g \in DOMAIN files \ {upload.file} |-> files[g]] /\ upload' = Idle
  /\ UNCHANGED <<db, copies, died, noted>>

Die ==
  /\ upload # Idle /\ upload' = Idle /\ died' = TRUE
  /\ UNCHANGED <<db, copies, files, noted>>

\* A backup copies the database and not the directory.
Backup ==
  /\ upload = Idle /\ Cardinality(copies) < MaxBackups
  /\ copies' = copies \cup {db}
  /\ UNCHANGED <<db, files, upload, died, noted>>

\* The operational file is replaced, by a backup or by a file from another
\* machine, whose attachments stayed there.
Foreign == [NewFile EXCEPT !.articles = 1, !.given = 1,
              !.rows = {[id |-> 1, article |-> 1, file |-> Elsewhere]}]
Replace(c) ==
  /\ upload = Idle /\ db' = c
  /\ UNCHANGED <<copies, files, upload, died, noted>>

NextKnowledge ==
  \/ CreateArticle
  \/ \E a \in 1 .. MaxArticles : DeleteArticle(a)
  \/ \E a \in 1 .. MaxArticles, f \in FileNames : Begin(a, f)
  \/ Open \/ Write \/ Record \/ Fail \/ Die
  \/ Backup
  \/ \E c \in copies \cup {Foreign} : Replace(c)

KnowledgeSpec == InitKnowledge /\ [][NextKnowledge]_knowledgeVars

-----------------------------------------------------------------------------

\* attachment_download: the row of a readable article whose file is there
Served(r) == Readable(r.article) /\ r.file \in DOMAIN files

\* Whatever fails, dies or is restored: each attachment on record, in the
\* operational file and in every backup that may come back, has its own file with
\* all its bytes, and a readable article serves it. Files that no row ever named
\* are there only while they are being attached, or after a crash.
FilesAndRowsAgree ==
  /\ \A c \in copies \cup {db} : \A r \in c.rows :
       /\ r.file # Elsewhere => r.file \in DOMAIN files /\ files[r.file] = "whole"
       /\ \A s \in c.rows : s.file = r.file /\ r.file # Elsewhere => s = r
  /\ \A r \in db.rows : r.file # Elsewhere /\ Readable(r.article) => Served(r)
  /\ \A f \in DOMAIN files \ noted : died \/ (upload # Idle /\ f = upload.file)
=============================================================================
