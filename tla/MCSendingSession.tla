-------------------------- MODULE MCSendingSession --------------------------
(* SendingSession on small instances. *)
EXTENDS SendingSession, TLC

CONSTANTS a, b, c, own, old, x, y, z, other

Part(kind, within, attached, blank) ==
    [kind |-> kind, within |-> within, attached |-> attached, blank |-> blank]

Plain == [sender |-> TRUE, to |-> {a}, cc |-> {b}, envelope |-> {a, b},
          references |-> << >>, own |-> own, headers |-> << >>,
          parts |-> <<Part("plain", {}, FALSE, FALSE)>>, big |-> FALSE]

\* Every way to spread three addresses over headers and envelope.
RecipientShapes ==
    {[Plain EXCEPT !.to = to, !.cc = cc, !.envelope = envelope] :
        to \in SUBSET {a, b, c}, cc \in SUBSET {a, b, c},
        envelope \in SUBSET {a, b, c}}

\* Every short References header beside other headers: none, one that is small,
\* big, too big or not allowed, two, a repeated one, three that are empty.
Header(name, size) == [name |-> name, size |-> size]

HeaderShapes ==
    {[Plain EXCEPT !.references = references, !.headers = headers] :
        references \in {<< >>, <<old>>, <<own>>, <<old, own>>, <<own, old>>,
                        <<old, old>>, <<old, own, old>>},
        headers \in {<< >>, <<Header(other, 6)>>,
                     <<Header(x, 0), Header(y, 0), Header(z, 0)>>}
                    \cup {<<Header(x, size)>> : size \in {1, 5, 6}}
                    \cup {<<Header(x, 5), Header(y, size)>> : size \in {0, 1, 5}}
                    \cup {<<Header(x, 2), Header(x, size)>> : size \in {0, 1, 2}}}

\* Every MIME tree of up to four parts that starts with a multipart and has at
\* most one part attached and one blank.  A shape says what each part is within.
TreeShapes ==
    {<<{}, {1}>>, <<{}, {1}, {1}>>, <<{}, {1}, {1, 2}>>,
     <<{}, {1}, {1}, {1}>>, <<{}, {1}, {1, 2}, {1}>>, <<{}, {1}, {1}, {1, 3}>>,
     <<{}, {1}, {1, 2}, {1, 2}>>, <<{}, {1}, {1, 2}, {1, 2, 3}>>}

Children(shape, i) ==
    {j \in DOMAIN shape : i \in shape[j] /\ \A k \in shape[j] : k <= i}

Kinds(shape, i) ==
    CASE i = 1                                -> {"multipart", "related"}
      [] Children(shape, i) = {}              -> {"plain", "html", "file"}
      [] Cardinality(Children(shape, i)) = 1  -> {"multipart", "related", "rfc822"}
      [] OTHER                                -> {"multipart", "related"}

Trees(shape) ==
    LET parts == DOMAIN shape
        kinds == {k \in [parts -> {"multipart", "related", "rfc822", "plain", "html", "file"}] :
                    \A i \in parts : k[i] \in Kinds(shape, i)}
    IN  UNION {{[i \in parts |-> Part(k[i], shape[i], i = attached, i = blank)] :
                   attached \in {0} \cup (parts \ {1}),
                   blank \in {0} \cup {i \in parts : k[i] \in {"plain", "html"}}} :
               k \in kinds}

ContentShapes ==
    {[Plain EXCEPT !.parts = parts] : parts \in UNION {Trees(shape) : shape \in TreeShapes}}

MCMails ==
    RecipientShapes \cup HeaderShapes \cup ContentShapes
    \cup {[Plain EXCEPT !.sender = FALSE], [Plain EXCEPT !.big = TRUE]}

\* An impossible one, none, one below the cap and one above it.
MCRetryAfter == {-1, 0, 1, 5}

Symmetry == Permutations(Messages)
=============================================================================
