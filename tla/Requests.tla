------------------------------ MODULE Requests ------------------------------
(***************************************************************************)
(* A request and a cookie jar as an application builds them with            *)
(* src/http_types.c: headers, parts, authorization, an OAuth 2 form, the    *)
(* multipart body.  Every allocation may fail, and the application goes on  *)
(* with what it has.  Memory is a count of the blocks that are allocated.   *)
(***************************************************************************)
EXTENDS Integers, Sequences, SequencesExt

CONSTANTS
  HeaderRoom,     \* the first array of headers, scaled from 8
  PartRoom,       \* the first array of parts and of cookies, scaled from 4
  PartShapes,     \* the parts that are added; a length of -1 says there is none
  MaxOperations   \* bound: operations of the application

ASSUME RequestBounds ==
  /\ {HeaderRoom, PartRoom} \subseteq Nat \ {0} /\ MaxOperations \in Nat
  /\ PartShapes \subseteq [name : Nat, file : Nat \cup {-1}, type : Nat \cup {-1},
                           headers : {<<>>}, data : Nat]

VARIABLES
  req,     \* HttpRequest
  jar,     \* HttpCookieJar: its names
  blocks,  \* blocks allocated and not freed
  lost,    \* of these, blocks that a form's request no longer points to
  done     \* operations so far

requestVars == <<req, jar, blocks, lost, done>>

NoList == [room |-> 0, items |-> <<>>]
NoBody == [kind |-> "none", len |-> 0, size |-> 0, written |-> 0, parts |-> 0]
NewRequest == [url |-> FALSE, headers |-> NoList, parts |-> NoList, body |-> NoBody]

Keys == {"Content-Type", "X-Key"}
Cookies == {"a", "b"}

RequestInit ==
  /\ req = NewRequest
  /\ jar = NoList
  /\ blocks = 0
  /\ lost = 0
  /\ done = 0

-----------------------------------------------------------------------------
(* Bodies are written into one block whose size is counted first: the      *)
(* forms of OAuth 2 and the parts of a multipart request.  The sizes are    *)
(* the code's; the encoded value of a field is counted and written by the   *)
(* same rules (TextCodecs) and left out of both.                           *)

(* What is counted for a field's name, its equals sign and the ampersand    *)
(* before it, and how long the text is that is copied there.                *)
CountedLength(field, first) ==
  LET length == [grant_type |-> 11, username |-> 10, password |-> 10, client_id |-> 11,
                 client_secret |-> 15, scope |-> 7, refresh_token |-> 15, code |-> 6,
                 redirect_uri |-> 14, code_verifier |-> 15, assertion |-> 11,
                 device_code |-> 13, token |-> 6, token_type_hint |-> 17]
  IN IF first /\ field = "client_id" THEN 10 ELSE length[field]

NameLength == [grant_type |-> 10, username |-> 8, password |-> 8, client_id |-> 9,
               client_secret |-> 13, scope |-> 5, refresh_token |-> 13, code |-> 4,
               redirect_uri |-> 12, code_verifier |-> 13, assertion |-> 9,
               device_code |-> 11, token |-> 5, token_type_hint |-> 15]

ASSUME NameLengths == \A field \in DOMAIN NameLength : NameLength[field] = Len(field)

CopiedLength(field, first) == NameLength[field] + IF first THEN 1 ELSE 2

Form(required, optional) == [required |-> required, optional |-> optional]

password_grant ==
  Form(<<"grant_type", "username", "password">>, <<"client_id", "client_secret", "scope">>)
refresh_token_grant ==
  Form(<<"grant_type", "refresh_token">>, <<"client_id", "client_secret", "scope">>)
authorization_code_grant ==
  Form(<<"grant_type", "code">>,
       <<"redirect_uri", "client_id", "client_secret", "code_verifier">>)
client_credentials_grant ==
  Form(<<"grant_type">>, <<"client_id", "client_secret", "scope">>)
jwt_bearer_grant == Form(<<"grant_type", "assertion">>, <<"scope">>)
device_authorization_request == Form(<<"client_id">>, <<"scope">>)
device_access_token_request == Form(<<"grant_type", "client_id", "device_code">>, <<>>)
token_revocation ==
  Form(<<"token">>, <<"token_type_hint", "client_id", "client_secret">>)
token_introspection ==
  Form(<<"token">>, <<"token_type_hint", "client_id", "client_secret">>)

Forms == {password_grant, refresh_token_grant, authorization_code_grant,
          client_credentials_grant, jwt_bearer_grant, device_authorization_request,
          device_access_token_request, token_revocation, token_introspection}

(* A list, then those items that are wanted, in their order.                *)
Kept(list, items, wanted) ==
  LET kept[n \in 0..Len(items)] ==
        IF n = 0 THEN list
        ELSE IF items[n] \in wanted THEN Append(kept[n - 1], items[n]) ELSE kept[n - 1]
  IN kept[Len(items)]

(* The fields written: the required ones, then those of the others given.   *)
Fields(form, given) == Kept(form.required, form.optional, given)

Sum(numbers) ==
  LET total[n \in 0..Len(numbers)] == IF n = 0 THEN 0 ELSE total[n - 1] + numbers[n]
  IN total[Len(numbers)]

FormSize(fields) == Sum([i \in DOMAIN fields |-> CountedLength(fields[i], i = 1)])
FormWritten(fields) == Sum([i \in DOMAIN fields |-> CopiedLength(fields[i], i = 1)])

-----------------------------------------------------------------------------
(* http_request_flatten_parts.  A part has a name, maybe a file name, a     *)
(* content type and headers, each of some length, and data.                 *)
Boundary == 40

Mutant_part_size(part) ==
  (Boundary + 6) + (38 + part.name + 4) + (IF part.file >= 0 THEN part.file + 1 ELSE 0) + 2
    + (IF part.type >= 0 THEN 14 + part.type + 2 ELSE IF part.file >= 0 THEN 14 + 24 + 2 ELSE 0)
    + Sum([h \in DOMAIN part.headers |-> part.headers[h] + 4]) + 2 + part.data + 2

(* The estimate.                                                           *)
part_size(part) ==
  (Boundary + 6) + (38 + part.name + 4)
    + (IF part.file >= 0 THEN 13 + part.file + 1 ELSE 0) + 2
    + (IF part.type >= 0 THEN 14 + part.type + 2 ELSE IF part.file >= 0 THEN 14 + 24 + 2 ELSE 0)
    + Sum([h \in DOMAIN part.headers |-> part.headers[h] + 4]) + 2 + part.data + 2

(* What is written: the boundary line, the disposition, the type, the       *)
(* headers, an empty line, the data and a line end.                         *)
part_written(part) ==
  (2 + Boundary + 2) + (38 + part.name + 1)
    + (IF part.file >= 0 THEN 12 + part.file + 1 ELSE 0) + 2
    + (IF part.type >= 0 THEN 14 + part.type + 2 ELSE IF part.file >= 0 THEN 40 ELSE 0)
    + Sum([h \in DOMAIN part.headers |-> part.headers[h] + 4]) + 2 + part.data + 2

PartsSize(parts) == Sum([i \in DOMAIN parts |-> part_size(parts[i])]) + (Boundary + 8)
PartsWritten(parts) ==
  Sum([i \in DOMAIN parts |-> part_written(parts[i])]) + (2 + Boundary + 4)

-----------------------------------------------------------------------------
(* An array that doubles when it is full; one of the strings of the new     *)
(* item cannot be copied, or the item is there.  An operation that fails    *)
(* before it changed anything is no step here.                              *)
Grown(list, first) ==
  IF Len(list.items) < list.room THEN list
  ELSE [list EXCEPT !.room = IF list.room = 0 THEN first ELSE 2 * list.room]

NewBlocks(list, grown) == IF list.room = 0 /\ grown.room > 0 THEN 1 ELSE 0

Outcome(list, ok, got) == [list |-> list, ok |-> ok, got |-> got]

(* http_headers_add, http_request_add_part, http_cookie_jar_set: a failure  *)
(* frees the strings that were copied before, and keeps the larger array.   *)
Added(list, first, item, strings) ==
  LET grown == Grown(list, first)
      array == NewBlocks(list, grown)
  IN {Outcome(grown, FALSE, array),
      Outcome([grown EXCEPT !.items = Append(@, item)], TRUE, array + strings)}

http_headers_add(list, key) == Added(list, HeaderRoom, key, 2)

Acts == done < MaxOperations /\ done' = done + 1

add_header ==
  /\ Acts
  /\ \E key \in Keys : \E o \in http_headers_add(req.headers, key) :
       req' = [req EXCEPT !.headers = o.list] /\ blocks' = blocks + o.got
  /\ UNCHANGED <<jar, lost>>

(* All headers with the key, whatever its case.                             *)
http_headers_remove ==
  /\ Acts
  /\ \E key \in Keys :
       LET others == Kept(<<>>, req.headers.items, ToSet(req.headers.items) \ {key})
       IN /\ req' = [req EXCEPT !.headers.items = others]
          /\ blocks' = blocks - 2 * (Len(req.headers.items) - Len(others))
  /\ UNCHANGED <<jar, lost>>

OneIf(length) == IF length >= 0 THEN 1 ELSE 0

http_request_add_part ==
  /\ Acts
  /\ \E part \in PartShapes :
       \E o \in Added(req.parts, PartRoom, [part EXCEPT !.headers = NoList],
                      1 + OneIf(part.file) + OneIf(part.type)) :
         req' = [req EXCEPT !.parts = o.list] /\ blocks' = blocks + o.got
  /\ UNCHANGED <<jar, lost>>

http_request_add_part_header_last ==
  /\ Acts
  /\ req.parts.items # <<>>
  /\ LET last == Len(req.parts.items)
     IN \E o \in http_headers_add(req.parts.items[last].headers, "X-Key") :
          /\ req' = [req EXCEPT !.parts.items[last].headers = o.list]
          /\ blocks' = blocks + o.got
  /\ UNCHANGED <<jar, lost>>

(* Temporary strings are freed on every path.                               *)
http_request_set_auth ==
  /\ Acts
  /\ \E o \in http_headers_add(req.headers, "Authorization") :
       req' = [req EXCEPT !.headers = o.list] /\ blocks' = blocks + o.got
  /\ UNCHANGED <<jar, lost>>

-----------------------------------------------------------------------------
(* The multipart body, with its Content-Type header: both or neither.       *)
Lengths(part) == [part EXCEPT !.headers = [h \in DOMAIN part.headers.items |-> 6]]

Multipart ==
  LET parts == [i \in DOMAIN req.parts.items |-> Lengths(req.parts.items[i])]
  IN [kind |-> "multipart", len |-> PartsWritten(parts), size |-> PartsSize(parts),
      written |-> PartsWritten(parts) + 1, parts |-> Len(parts)]

Mutant_failed_flatten_keeps_body ==
  /\ Acts
  /\ req.parts.items # <<>> /\ req.body = NoBody
  /\ \E o \in http_headers_add(req.headers, "Content-Type") :
       /\ req' = [req EXCEPT !.headers = o.list, !.body = IF o.ok THEN Multipart ELSE NoBody]
       /\ blocks' = blocks + o.got + 1
  /\ UNCHANGED <<jar, lost>>

http_request_flatten_parts ==
  /\ Acts
  /\ req.parts.items # <<>> /\ req.body = NoBody
  /\ \E o \in http_headers_add(req.headers, "Content-Type") :
       /\ req' = [req EXCEPT !.headers = o.list, !.body = IF o.ok THEN Multipart ELSE NoBody]
       /\ blocks' = blocks + o.got + IF o.ok THEN 1 ELSE 0
  /\ UNCHANGED <<jar, lost>>

(* A form's request: the URL it had is forgotten before the new one is      *)
(* copied, and a body it had when the form's is in place.                   *)
Url(r) == IF r.url THEN 1 ELSE 0
Body(r) == IF r.body = NoBody THEN 0 ELSE 1

FormBody(fields) ==
  [kind |-> "form", len |-> FormSize(fields), size |-> FormSize(fields) + 1,
   written |-> FormWritten(fields) + 1, parts |-> 0]

init_oauth2_no_url ==
  /\ Acts
  /\ req' = [req EXCEPT !.url = FALSE]
  /\ lost' = lost + Url(req)
  /\ UNCHANGED <<jar, blocks>>

init_oauth2_no_body ==
  /\ Acts
  /\ \E o \in http_headers_add(req.headers, "Content-Type") :
       req' = [req EXCEPT !.url = TRUE, !.headers = o.list] /\ blocks' = blocks + 1 + o.got
  /\ lost' = lost + Url(req)
  /\ UNCHANGED jar

init_oauth2 ==
  /\ Acts
  /\ \E form \in Forms : \E given \in SUBSET ToSet(form.optional) :
     \E o \in {a \in http_headers_add(req.headers, "Content-Type") : a.ok} :
       /\ req' = [req EXCEPT !.url = TRUE, !.headers = o.list,
                             !.body = FormBody(Fields(form, given))]
       /\ blocks' = blocks + 1 + o.got + 1
  /\ lost' = lost + Url(req) + Body(req)
  /\ UNCHANGED jar

-----------------------------------------------------------------------------
(* A cookie of that name gets the new value in place of its own.            *)
http_cookie_jar_set ==
  /\ Acts
  /\ \E name \in Cookies :
       IF name \in ToSet(jar.items) THEN UNCHANGED <<jar, blocks>>
       ELSE \E o \in Added(jar, PartRoom, name, 2) : jar' = o.list /\ blocks' = blocks + o.got
  /\ UNCHANGED <<req, lost>>

Block(list) == IF list.room = 0 THEN 0 ELSE 1
HeaderBlocks(list) == Block(list) + 2 * Len(list.items)
PartBlocks(part) ==
  1 + OneIf(part.file) + OneIf(part.type) + HeaderBlocks(part.headers)
PartsBlocks(list) ==
  Block(list) + Sum([i \in DOMAIN list.items |-> PartBlocks(list.items[i])])

http_request_free ==
  /\ Acts
  /\ req' = NewRequest
  /\ blocks' = blocks - (Url(req) + Body(req) + HeaderBlocks(req.headers) + PartsBlocks(req.parts))
  /\ UNCHANGED <<jar, lost>>

http_cookie_jar_free ==
  /\ Acts
  /\ jar' = NoList
  /\ blocks' = blocks - HeaderBlocks(jar)
  /\ UNCHANGED <<req, lost>>

RequestNext ==
  \/ add_header \/ http_headers_remove \/ http_request_add_part
  \/ http_request_add_part_header_last \/ http_request_set_auth
  \/ http_request_flatten_parts \/ init_oauth2_no_url \/ init_oauth2_no_body \/ init_oauth2
  \/ http_cookie_jar_set \/ http_request_free \/ http_cookie_jar_free

RequestSpec == RequestInit /\ [][RequestNext]_requestVars

-----------------------------------------------------------------------------
(* Whatever allocation fails in whatever operation, every block that is     *)
(* still allocated can be reached from the request or the jar, which is     *)
(* what freeing these later relies on; the arrays have room for what they   *)
(* count.  The exception is a form's request prepared twice, or after a     *)
(* multipart body: its old URL and body are overwritten, never freed        *)
(* (http_types.c:136-437, 693-751, 1017-1995).                              *)
BlocksReachable ==
  /\ blocks = lost + Url(req) + Body(req) + HeaderBlocks(req.headers)
                + PartsBlocks(req.parts) + HeaderBlocks(jar)
  /\ Len(req.headers.items) <= req.headers.room
  /\ Len(req.parts.items) <= req.parts.room
  /\ Len(jar.items) <= jar.room

(* A body was written within the block allocated for it, has the length     *)
(* that is sent, to the byte, and holds parts of the request only           *)
(* (http_types.c:452-660, 1214-1995).                                       *)
BodyWhole ==
  req.body # NoBody =>
    /\ req.body.written <= req.body.size
    /\ req.body.written = req.body.len + 1
    /\ req.body.kind = "multipart" => req.body.parts \in 1 .. Len(req.parts.items)
=============================================================================
