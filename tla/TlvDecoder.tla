----------------------------- MODULE TlvDecoder -----------------------------
(***************************************************************************)
(* Stages 3 and 4 of decoding a frame, the summary and then decode_body,   *)
(* as a state machine: one step per field.                                 *)
(*                                                                         *)
(* A nested block is decoded by a call within the loop of the block that   *)
(* holds it; the stack is the stack of those calls.                        *)
(***************************************************************************)
EXTENDS BlockTypes, SequencesExt

CONSTANT Untyped   \* the types without schema: "End", and the unknown ones

VARIABLES
  type,     \* the type of the block
  flagged,  \* its frame's HAS_SUMMARY flag
  body,     \* its body; the rest of it, once the summary is taken off
  stack,    \* for each call: the type, the bytes left, the fields read, and for a
            \* nested block the id of the field that holds it
  status,   \* "called", "stripped", "decoding", "ok" or an error
  summary,  \* the summary found
  result    \* the value returned

Call(t, bytes, id) == [type |-> t, rest |-> bytes, fields |-> Blank(t), id |-> id]

DecoderInit ==
  /\ stack = <<>> /\ status = "called" /\ summary = None /\ result = <<>>
-----------------------------------------------------------------------------
Return(value) == status' = "ok" /\ result' = value /\ stack' = <<>>
Fail(error) == status' = error /\ stack' = <<>> /\ UNCHANGED result

Top == Last(stack)

\* The rest of a call's bytes after a field, and what the field holds.
Advanced(call, rest) == [call EXCEPT !.rest = rest]
WithField(call, id, value) == [call EXCEPT !.fields[id] = value]
ReplaceTop(call) == stack' = Append(Front(stack), call) /\ UNCHANGED <<status, result>>

\* The summary is taken off the front of the body when the flag says that there is one.
StripSummary ==
  /\ status = "called"
  /\ LET s == DecodeSummary(body) IN
     IF ~flagged THEN status' = "stripped" /\ UNCHANGED <<body, summary>>
     ELSE IF Failed(s) THEN status' = s.error /\ UNCHANGED <<body, summary>>
     ELSE status' = "stripped" /\ body' = From(body, s.n) /\ summary' = s.value
  /\ UNCHANGED <<type, flagged, stack, result>>

\* END and unknown blocks have no fields: one ignores its body, the others are it.
DecodeUntyped ==
  /\ status = "stripped" /\ type \in Untyped
  /\ Return(IF type = "End" THEN <<>> ELSE body)
  /\ UNCHANGED <<type, flagged, body, summary>>

DecodeTyped ==
  /\ status = "stripped" /\ type \notin Untyped
  /\ status' = "decoding" /\ stack' = <<Call(type, body, 0)>>
  /\ UNCHANGED <<type, flagged, body, summary, result>>

\* Mutation: the first of several fields with the same id wins.
KnownFirst(id, rest) ==
  LET field == Schema[Top.type][id]
      payload == IF IsNumber(field.kind) THEN DecodeVarintValue(rest) ELSE DecodeBytesValue(rest)
      after == Advanced(Top, From(rest, payload.n)) IN
  IF Failed(payload) THEN Fail(payload.error)
  ELSE IF field.kind = "list"
  THEN /\ stack' = Front(stack) \o <<after, Call(field.arg, payload.value, id)>>
       /\ UNCHANGED <<status, result>>
  ELSE IF Refuses(field, payload.value) THEN Fail("InvalidEnumValue")
  ELSE IF Top.fields[id] # None THEN ReplaceTop(after)
  ELSE ReplaceTop(WithField(after, id, Accepted(field, payload.value)))

\* A field of the schema: its payload is read as the schema says, whatever the wire
\* type in its header.  Of several with the same id the last wins, or all are kept.
Known(id, rest) ==
  LET field == Schema[Top.type][id]
      payload == IF IsNumber(field.kind) THEN DecodeVarintValue(rest) ELSE DecodeBytesValue(rest)
      after == Advanced(Top, From(rest, payload.n)) IN
  IF Failed(payload) THEN Fail(payload.error)
  ELSE IF field.kind = "list"
  THEN /\ stack' = Front(stack) \o <<after, Call(field.arg, payload.value, id)>>
       /\ UNCHANGED <<status, result>>
  ELSE IF Refuses(field, payload.value) THEN Fail("InvalidEnumValue")
  ELSE ReplaceTop(WithField(after, id, Accepted(field, payload.value)))

\* A field outside the schema is skipped by its wire type.
Unknown(wireType, rest) ==
  LET skipped == SkipField(rest, wireType) IN
  IF Failed(skipped) THEN Fail(skipped.error)
  ELSE ReplaceTop(Advanced(Top, From(rest, skipped.n)))

DecodeField ==
  /\ status = "decoding" /\ Top.rest # <<>>
  /\ LET header == DecodeFieldHeader(Top.rest)
         rest == From(Top.rest, header.n) IN
     IF Failed(header) THEN Fail(header.error)
     ELSE IF header.value.id \in FieldIds(Top.type) THEN Known(header.value.id, rest)
     ELSE Unknown(header.value.wireType, rest)
  /\ UNCHANGED <<type, flagged, body, summary>>

\* Mutation: only the fields of the outermost block are checked.
EndOfFieldsUnchecked ==
  /\ status = "decoding" /\ Top.rest = <<>>
  /\ LET block == Assembled(Top.type, Top.fields)
         caller == Last(Front(stack)) IN
     IF Len(stack) > 1
     THEN /\ stack' = Append(Front(Front(stack)),
                             WithField(caller, Top.id, Append(caller.fields[Top.id], block)))
          /\ UNCHANGED <<status, result>>
     ELSE IF Missing(Top.type, Top.fields) THEN Fail("MissingRequiredField")
     ELSE Return(block)
  /\ UNCHANGED <<type, flagged, body, summary>>

\* No bytes are left: the block is returned to the loop that called, or to the caller.
EndOfFields ==
  /\ status = "decoding" /\ Top.rest = <<>>
  /\ LET block == Assembled(Top.type, Top.fields)
         caller == Last(Front(stack)) IN
     IF Missing(Top.type, Top.fields) THEN Fail("MissingRequiredField")
     ELSE IF Len(stack) > 1
     THEN /\ stack' = Append(Front(Front(stack)),
                             WithField(caller, Top.id, Append(caller.fields[Top.id], block)))
          /\ UNCHANGED <<status, result>>
     ELSE Return(block)
  /\ UNCHANGED <<type, flagged, body, summary>>

DecoderNext == StripSummary \/ DecodeUntyped \/ DecodeTyped \/ DecodeField \/ EndOfFields
=============================================================================
