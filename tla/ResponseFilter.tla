---------------------------- MODULE ResponseFilter ----------------------------
(***************************************************************************)
(* What a proxy makes of an upstream response before it stores it and      *)
(* answers with it: ResponseData of idempotent-proxy-server/src/cache/     *)
(* mod.rs and of idempotent-proxy-cf-worker/src/util.ts.                   *)
(*                                                                         *)
(* A response is a status, a media type, a set of <<name, value>> headers  *)
(* and a body.  A body is an object, with a set of <<field, value>>, or    *)
(* any other document of its media type, or broken, no such document.      *)
(* The names of the response-headers header and of x-json-mask are sets:   *)
(* split_filtering() trims them and drops the empty ones.                  *)
(***************************************************************************)
EXTENDS Naturals

NameOf(pair) == pair[1]
EmptyObject  == [kind |-> "object", fields |-> {}]

(* with_headers(): the length and the transfer encoding are the proxy's    *)
(* own affair, the media type is kept apart, and values that are not text  *)
(* are passed over.                                                        *)
Framing == {"content-type", "content-length", "transfer-encoding"}
NotText == "not text"

WithHeaders(headers, names) ==
  {h \in headers : /\ NameOf(h) \notin Framing /\ h[2] # NotText
                   /\ names = {} \/ NameOf(h) \in names}

(* Mutant of Masks: error bodies are masked as well. *)
MasksErrors(response, mask) == mask # {} /\ response.mime \in {"json", "cbor"}

(* with_body(): errors are passed on as they are, and so is a body that    *)
(* nobody masks or whose media type has no fields.                         *)
Masks(response, mask) ==
  /\ mask # {} /\ response.status < 300
  /\ response.mime \in {"json", "cbor"}

(* There is nothing to store: the request fails. *)
Unreadable(response, mask) ==
  Masks(response, mask) /\ response.body.kind = "broken"

WithBody(response, mask) ==
  IF ~Masks(response, mask) THEN response.body
  ELSE IF response.body.kind = "object"
       THEN [response.body EXCEPT !.fields = {f \in @ : NameOf(f) \in mask}]
       ELSE EmptyObject

(* The ResponseData that is stored. *)
Filtered(response, names, mask) ==
  [response EXCEPT !.headers = WithHeaders(@, names),
                   !.body = WithBody(response, mask)]

(* A status from 200 to 500 is a server's answer; any other counts as none. *)
Cacheable(status) == status \in 200 .. 500

(* hyper dates a reply that has no date, with the time of this very reply. *)
Dated(headers, date) ==
  headers \cup {<<"date", d>> : d \in IF "date" \in {NameOf(h) : h \in headers}
                                      THEN {} ELSE {date}}

(* into_response(): the stored headers and the media type. *)
Served(data, date) ==
  [status  |-> data.status, body |-> data.body,
   headers |-> Dated(data.headers \cup {<<"content-type", data.mime>>}, date)]

(* toResponse() of the worker: always status 200. *)
ServedByWorker(data, date) == [Served(data, date) EXCEPT !.status = 200]

=============================================================================
