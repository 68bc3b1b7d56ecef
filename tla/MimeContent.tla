---------------------------- MODULE MimeContent ----------------------------
(***************************************************************************)
(* How the outbound transport (mail_cloudflare/cloudflare_api.py) divides  *)
(* the MIME tree of a message into a text, an html and attachments.  Pure  *)
(* operators.                                                              *)
(*                                                                         *)
(* A tree is the sequence of its parts in the order walk() visits them.  A *)
(* part is a record: its kind ("related" and "rfc822" apart from the other *)
(* containers, "multipart"), the places of the parts it is `within`,       *)
(* whether its Content-Disposition is `attachment`, and whether its text   *)
(* is `blank`.                                                             *)
(***************************************************************************)
EXTENDS Integers, Sequences, FiniteSets, FiniteSetsExt

Multipart == {"multipart", "related"}

MimePart == [kind : Multipart \cup {"rfc822", "plain", "html", "file"},
             within : SUBSET Nat, attached : BOOLEAN, blank : BOOLEAN]

\* The trees there are: a part comes after the containers it is within, and each
\* of these is within the ones before it.
Tree(parts) ==
    /\ parts \in Seq(MimePart)
    /\ \A i \in DOMAIN parts :
        /\ parts[i].within \subseteq 1 .. i - 1
        /\ \A a \in parts[i].within :
            /\ parts[a].kind \in Multipart \cup {"rfc822"}
            /\ parts[a].within = parts[i].within \cap 1 .. a - 1

LeavesOfWalk(parts) ==      \* variant: walk(), which enters attached messages
    {i \in DOMAIN parts : parts[i].kind \notin Multipart}

\* _iter_leaves: what is no multipart, an attached message being one leaf.
Leaves(parts) ==
    {i \in DOMAIN parts :
        /\ parts[i].kind \notin Multipart
        /\ \A a \in parts[i].within : parts[a].kind # "rfc822"}

\* Where EmailMessage.get_body looks: in no attachment and in no attached
\* message, and of a multipart/related only in its first part.
Shown(parts, i) ==
    /\ ~parts[i].attached
    /\ \A a \in parts[i].within :
        /\ parts[a].kind \in Multipart /\ ~parts[a].attached
        /\ parts[a].kind = "related" => a + 1 \in parts[i].within \cup {i}

\* get_body(("plain",)) and get_body(("html",)): the first there is, as a set.
BodyPart(parts, kind) ==
    LET found == {i \in DOMAIN parts : parts[i].kind = kind /\ Shown(parts, i)}
    IN  IF found = {} THEN {} ELSE {Min(found)}

\* A body of nothing but whitespace is left out.
NotBlank(parts, body) == {i \in body : ~parts[i].blank}

\* _extract_content: every leaf that is not a body is an attachment.
extract_content(parts) ==
    LET html == BodyPart(parts, "html")
        text == BodyPart(parts, "plain")
    IN  [text        |-> NotBlank(parts, text),
         html        |-> NotBlank(parts, html),
         attachments |-> Leaves(parts) \ (html \cup text)]

\* The parts whose bytes an attachment carries: itself, and what it holds.
Carried(parts, i) == {j \in DOMAIN parts : j = i \/ i \in parts[j].within}
=============================================================================
