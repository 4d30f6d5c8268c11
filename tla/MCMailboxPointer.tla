-------------------------- MODULE MCMailboxPointer --------------------------
EXTENDS MailboxPointer

CONSTANTS p1, p2
=============================================================================
