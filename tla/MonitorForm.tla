------------------------------- MODULE MonitorForm -------------------------------
(***************************************************************************)
(* The two validations of a monitor's settings: the form's (frontend/src/  *)
(* app/monitorState.ts) and the API's (MonitorFields and MonitorPatch of   *)
(* backend/app/schemas.py with patch_monitor of routes.py).                *)
(*                                                                         *)
(* A text is the set of what the validations can tell of it; it is empty   *)
(* when it is not "filled".  A numeral is its value, Junk or Empty.        *)
(***************************************************************************)
EXTENDS Integers

Kinds == {"icmp", "tcp", "http"}
Schemes == {"http", "https"}
NoScheme == ""

Junk == -2     \* text that is no numeral
Empty == -1
NoPort == -3   \* null

(* slash: begins with one, once trimmed; indented and trailing: blanks      *)
(* before and after; break: a line break inside; long: over the API's limit *)
Text == {t \in SUBSET {"filled", "slash", "indented", "trailing", "break", "long"} :
           t # {} => "filled" \in t}
Null == {"null"}
Trim(t) == t \ {"indented", "trailing"}
trimOrNull(t) == IF "filled" \in t THEN Trim(t) ELSE Null
startsWithSlash(t) == {"slash"} \subseteq t /\ "indented" \notin t

(* MonitorDraft; the target is an IPv4 address or not, padded or not.       *)
Draft(target, ports, texts, intervals, timeouts) ==
  [kind : Kinds, target_ipv4 : target, port : ports,
   scheme : Schemes \cup {NoScheme}, path : texts, host_header : texts,
   verify_tls : BOOLEAN, interval_seconds : intervals,
   timeout_seconds : timeouts]

-----------------------------------------------------------------------------
(* The form. *)

integerInRange(n, min, max) == n \in Nat /\ min <= n /\ n <= max

validIpv4(t) == t = {"ipv4"}

(* The fields that contradict the new kind are reset. *)
draftForMonitorKind(draft, kind) ==
  CASE kind = "icmp" -> [draft EXCEPT !.kind = kind, !.port = Empty,
                           !.scheme = NoScheme, !.path = {}, !.host_header = {},
                           !.verify_tls = TRUE]
    [] kind = "tcp"  -> [draft EXCEPT !.kind = kind, !.scheme = NoScheme,
                           !.path = {}, !.host_header = {}, !.verify_tls = TRUE]
    [] kind = "http" -> [draft EXCEPT !.kind = kind,
                           !.scheme = IF @ = NoScheme THEN "http" ELSE @,
                           !.path = IF @ = {} THEN {"filled", "slash"} ELSE @]

HttpPath(draft) ==
  IF trimOrNull(draft.path) = Null THEN {"filled", "slash"} ELSE Trim(draft.path)

(* validateMonitorDraft: the fields in error, and the payload if none is.   *)
Errors(draft) ==
  {f \in {"target_ipv4"} : ~validIpv4(Trim(draft.target_ipv4))}
  \cup {f \in {"interval_seconds"} : ~integerInRange(draft.interval_seconds, 5, 3600)}
  \cup {f \in {"timeout_seconds"} : ~integerInRange(draft.timeout_seconds, 1, 30)}
  \cup {f \in {"port"} : draft.kind # "icmp" /\ ~integerInRange(draft.port, 1, 65535)}
  \cup {f \in {"scheme"} : draft.kind = "http" /\ draft.scheme = NoScheme}
  \cup {f \in {"path"} : draft.kind = "http" /\ ~startsWithSlash(HttpPath(draft))}
  \cup {f \in {"host_header"} : draft.kind = "http" /\ "break" \in draft.host_header}

PayloadUnreset(draft) ==
  [draft EXCEPT !.target_ipv4 = Trim(@),
                !.port = IF draft.kind = "icmp" THEN NoPort ELSE @,
                !.path = IF draft.kind = "http" THEN HttpPath(draft) ELSE Null,
                !.host_header = IF draft.kind = "http" THEN trimOrNull(@) ELSE Null]
Payload(draft) ==
  LET http == draft.kind = "http"
  IN [draft EXCEPT
        !.target_ipv4 = Trim(@),
        !.port = IF draft.kind = "icmp" THEN NoPort ELSE @,
        !.scheme = IF http THEN @ ELSE NoScheme,
        !.path = IF http THEN HttpPath(draft) ELSE Null,
        !.host_header = IF http THEN trimOrNull(@) ELSE Null,
        !.verify_tls = IF http /\ draft.scheme = "https" THEN @ ELSE TRUE]

(* monitorDraftFor an existing monitor. *)
monitorDraftFor(monitor) ==
  [monitor EXCEPT
     !.port = IF @ = NoPort THEN Empty ELSE @,
     !.path = IF @ = Null THEN {"filled", "slash"} ELSE @,
     !.host_header = IF @ = Null THEN {} ELSE @]

(* The fields that MonitorEditor shows: an error elsewhere would be unseen. *)
ShownFields(kind) ==
  {"target_ipv4", "interval_seconds", "timeout_seconds"}
  \cup (IF kind = "icmp" THEN {} ELSE {"port"})
  \cup (IF kind = "http" THEN {"scheme", "path", "host_header"} ELSE {})

-----------------------------------------------------------------------------
(* The API. *)

(* MonitorFields: the ranges of its fields and validate_kind_fields, which  *)
(* gives an HTTP check without a path the path "/".                         *)
FieldsAccepted(p) ==
  /\ validIpv4(p.target_ipv4)
  /\ p.port = NoPort \/ integerInRange(p.port, 1, 65535)
  /\ integerInRange(p.interval_seconds, 5, 3600)
  /\ integerInRange(p.timeout_seconds, 1, 30)
  /\ "long" \notin p.path \cup p.host_header
  /\ CASE p.kind = "icmp" -> /\ p.port = NoPort /\ p.scheme = NoScheme
                             /\ p.path = Null /\ p.host_header = Null
                             /\ p.verify_tls
       [] p.kind = "tcp" -> /\ p.port # NoPort /\ p.scheme = NoScheme
                            /\ p.path = Null /\ p.host_header = Null
                            /\ p.verify_tls
       [] p.kind = "http" -> /\ p.port # NoPort /\ p.scheme # NoScheme
                             /\ p.path = Null \/ startsWithSlash(p.path)
                             /\ "break" \notin p.host_header
                             /\ p.scheme = "http" => p.verify_tls

(* MonitorPatch checks the path and the host of any kind; the merged fields *)
(* are then checked as MonitorFields: the form sends them all.              *)
PatchAccepted(p) ==
  /\ p.path = Null \/ startsWithSlash(p.path)
  /\ "break" \notin p.host_header
  /\ FieldsAccepted(p)

(* What the API may have stored. *)
Normal(p) == [p EXCEPT !.path = IF p.kind = "http" /\ @ = Null
                                THEN {"filled", "slash"} ELSE @]

-----------------------------------------------------------------------------
(* Bounds: the values at and around each limit, each text that some check   *)
(* tells from another.                                                      *)

Targets == {{}, {"ipv4"}, {"ipv4", "indented"}}
Ports == {Junk, Empty, 0, 1, 65535, 65536}
Texts == {{}, {"filled", "slash"}, {"filled", "slash", "indented"},
          {"filled", "slash", "trailing"}, {"filled", "indented"},
          {"filled", "slash", "break"}, {"filled", "slash", "long"}}

Drafts == Draft(Targets, Ports, Texts, {30}, {3})
          \cup Draft({{"ipv4"}}, {80}, {{}}, {Junk, Empty, 4, 5, 3600, 3601},
                     {Junk, 0, 1, 30, 31})
StoredMonitors ==
  {Normal(p) : p \in {p \in Draft({{"ipv4"}}, {NoPort, 1, 65535},
                                  Texts \cup {Null}, {5, 3600}, {1, 30}) :
                        FieldsAccepted(p)}}

(* A draft that the form accepts, the API accepts, for a new monitor and in *)
(* place of any stored one; but for texts over 2048 or 255 characters,      *)
(* which the form does not limit.                                           *)
FormIsAccepted ==
  \A draft \in Drafts :
    Errors(draft) = {} /\ "long" \notin Payload(draft).path \cup Payload(draft).host_header
      => FieldsAccepted(Payload(draft)) /\ PatchAccepted(Payload(draft))

(* The form opened on a stored monitor and saved untouched sends what is    *)
(* stored, which patch_monitor takes as no change, so that the latest       *)
(* result is kept; but for the blanks it trims and an empty host header.    *)
UntouchedSaveIsNoop ==
  \A monitor \in StoredMonitors :
    LET draft == monitorDraftFor(monitor)
    IN /\ Errors(draft) = {}
       /\ Payload(draft) = [monitor EXCEPT
            !.path = IF @ = Null THEN @ ELSE Trim(@),
            !.host_header = IF @ = Null THEN @ ELSE trimOrNull(@)]

(* An error is always of a field that the form shows for the kind: what was *)
(* typed under another kind never blocks a save unseen.                     *)
ErrorsAreShown ==
  \A draft \in Drafts : Errors(draft) \subseteq ShownFields(draft.kind)

(* Whatever kinds are chosen one after the other, a draft of an ICMP or TCP *)
(* check keeps nothing of an HTTP one, and no error appears but that of a   *)
(* port that was not asked for before.                                      *)
Tidy(draft) ==
  draft.kind # "http" =>
    /\ draft.scheme = NoScheme /\ draft.host_header = {} /\ draft.verify_tls
    /\ draft.path \in {{}, {"filled", "slash"}}
KindChangeIsTidy ==
  \A draft \in Drafts, kind \in Kinds :
    Tidy(draft) =>
      LET changed == draftForMonitorKind(draft, kind)
      IN Tidy(changed) /\ Errors(changed) \subseteq Errors(draft) \cup {"port"}
=============================================================================
