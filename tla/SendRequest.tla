----------------------------- MODULE SendRequest ----------------------------
(***************************************************************************)
(* How the outbound transport (mail_cloudflare/cloudflare_api.py) turns a  *)
(* prepared message into a send request: who is visible to whom, what its  *)
(* body and its attachments are, which headers go along and which message  *)
(* ids it refers to.  Pure operators.                                      *)
(*                                                                         *)
(* A message is a record: whether it has a sender, the addresses of its To *)
(* and Cc headers, its envelope (smtp_to_list), its MIME parts, its other  *)
(* headers in order (name and size of each), the ids of its References     *)
(* header, its own Message-Id (core sets one), and whether it is too big   *)
(* once encoded.  Names and addresses are compared in lower case, so two   *)
(* spellings are one; ids, and header names, are of one length each.       *)
(***************************************************************************)
EXTENDS MimeContent

CONSTANTS
    MaxRecipients,          \* MAX_RECIPIENTS
    Allowed,                \* the headers of the allow-list, and X- headers
    MaxHeaderCount,         \* MAX_HEADER_COUNT
    MaxHeaderBytes,         \* MAX_HEADER_BYTES
    MaxHeaderValueBytes,    \* MAX_HEADER_VALUE_BYTES
    NameBytes,              \* the length of a header name with ": " and the CRLF
    IdBytes                 \* the length of a message id

ASSUME RecipientsAssumption == MaxRecipients \in Nat \ {0}
ASSUME HeadersAssumption ==
    /\ MaxHeaderCount \in Nat /\ MaxHeaderBytes \in Nat /\ MaxHeaderValueBytes \in Nat
    /\ NameBytes \in Nat \ {0} /\ IdBytes \in Nat \ {0}

IsSequence(s) == s \in Seq({s[i] : i \in DOMAIN s})

\* What such a record is of, whatever the message says.
WellFormed(mail) ==
    /\ IsFiniteSet(mail.envelope)
    /\ IsSequence(mail.references) /\ IsSequence(mail.headers)
    /\ \A i \in DOMAIN mail.headers :
        mail.headers[i].size \in Nat /\ mail.headers[i].name # "References"
    /\ Tree(mail.parts)

-----------------------------------------------------------------------------
(* Recipients. *)

SplitUnseen(mail) ==        \* variant: take() does not remember what it took
    LET to == mail.to \cap mail.envelope
        cc == mail.cc \cap mail.envelope
        bcc == mail.envelope \ (to \cup cc)
    IN  IF to = {} /\ Cardinality(bcc) = 1
        THEN [to |-> bcc, cc |-> cc, bcc |-> {}]
        ELSE [to |-> to, cc |-> cc, bcc |-> bcc]

SplitExposing(mail) ==      \* variant: no To, so every hidden one becomes visible
    LET to == mail.to \cap mail.envelope
        cc == (mail.cc \cap mail.envelope) \ to
        bcc == mail.envelope \ (to \cup cc)
    IN  IF to = {} THEN [to |-> bcc, cc |-> cc, bcc |-> {}]
        ELSE [to |-> to, cc |-> cc, bcc |-> bcc]

\* _split_recipients: the envelope says who gets the mail, the headers who of
\* them is visible; a lone hidden recipient stands in for a missing To.
SplitRecipients(mail) ==
    LET to == mail.to \cap mail.envelope
        cc == (mail.cc \cap mail.envelope) \ to
        bcc == mail.envelope \ (to \cup cc)
    IN  IF to = {} /\ Cardinality(bcc) = 1
        THEN [to |-> bcc, cc |-> cc, bcc |-> {}]
        ELSE [to |-> to, cc |-> cc, bcc |-> bcc]

RecipientsOf(split) == split.to \cup split.cc \cup split.bcc

\* Its two errors: nobody left, too many.
Addressable(mail) ==
    LET all == RecipientsOf(SplitRecipients(mail))
    IN  all # {} /\ Cardinality(all) <= MaxRecipients

-----------------------------------------------------------------------------
(* Headers. *)

Names(mail) == {mail.headers[i].name : i \in DOMAIN mail.headers} \cap Allowed

\* A repeated header is joined with ", ", unless the later one is empty.
ValueSize(mail, name) ==
    LET at == {i \in DOMAIN mail.headers : mail.headers[i].name = name}
        added(i) == LET size == mail.headers[i].size
                    IN  IF i = Min(at) \/ size = 0 THEN size ELSE 2 + size
    IN  MapThenSumSet(added, at)

\* `kept` ids, a space between two.
ReferencesSize(kept) == kept * IdBytes + (kept - 1)

\* _header_size.
HeaderSize(mail, kept) ==
    LET line(name) == NameBytes + ValueSize(mail, name)
    IN  MapThenSumSet(line, Names(mail)) + NameBytes + ReferencesSize(kept)

\* Cloudflare replaces the Message-Id; the own id travels in References.
WithOwnId(mail) ==
    IF \E i \in DOMAIN mail.references : mail.references[i] = mail.own
    THEN mail.references
    ELSE Append(mail.references, mail.own)

OversizedAtLimit(mail, kept) ==     \* variant: >= for >
    \/ ReferencesSize(kept) >= MaxHeaderValueBytes
    \/ HeaderSize(mail, kept) >= MaxHeaderBytes

\* references_oversized() of _passthrough_headers.
Oversized(mail, kept) ==
    \/ ReferencesSize(kept) > MaxHeaderValueBytes
    \/ HeaderSize(mail, kept) > MaxHeaderBytes

\* Its while loop: how many ids are left.
Kept(mail) ==
    LET trim[kept \in Nat] ==
            IF kept > 1 /\ Oversized(mail, kept) THEN trim[kept - 1] ELSE kept
    IN  trim[Len(WithOwnId(mail))]

\* The oldest ids are first and go first.
TrimReferences(mail) ==
    LET refs == WithOwnId(mail) IN SubSeq(refs, Len(refs) - Kept(mail) + 1, Len(refs))

HeadersFitSizes(mail) ==    \* variant: References is not counted as a header
    /\ \A name \in Names(mail) : ValueSize(mail, name) <= MaxHeaderValueBytes
    /\ ~Oversized(mail, Kept(mail))
    /\ Cardinality(Names(mail)) <= MaxHeaderCount

\* None of the errors left after trimming: a value, the total, the count.
HeadersFit(mail) ==
    /\ \A name \in Names(mail) : ValueSize(mail, name) <= MaxHeaderValueBytes
    /\ ~Oversized(mail, Kept(mail))
    /\ Cardinality(Names(mail)) + 1 <= MaxHeaderCount

-----------------------------------------------------------------------------
HasBody(mail) ==
    LET content == extract_content(mail.parts) IN content.text \cup content.html # {}

\* build_payload() returns a request or raises.
Buildable(mail) == mail.sender /\ Addressable(mail) /\ HasBody(mail) /\ HeadersFit(mail)

build_payload(mail) ==
    [split      |-> SplitRecipients(mail),
     content    |-> extract_content(mail.parts),
     headers    |-> Names(mail),
     references |-> TrimReferences(mail)]
=============================================================================
