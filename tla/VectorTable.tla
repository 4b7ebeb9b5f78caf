---------------------------- MODULE VectorTable ----------------------------
(***************************************************************************)
(* The addresses of the vector table (src/src/vm/vector_table.hpp) at      *)
(* which handlers are to be found.  No code of the machine calls them yet. *)
(***************************************************************************)
EXTENDS TernaryWord

Cause    == 0 .. 255   \* std::uint8_t
MaxCause == 26

ResetAddress         == 0
VectorBase           == 1
InterruptVectorBase  == VectorBase + 1
ExceptionVectorBase  == VectorBase + 28
InterruptVectorCount == MaxCause + 1
ExceptionVectorCount == MaxCause + 1
VectorTableWords     == 1 + InterruptVectorCount + ExceptionVectorCount

valid_cause(cause) == cause <= MaxCause

\* a conversion to Word that throws would terminate these noexcept functions;
\* none of them asks valid_cause
system_call_vector      == VectorBase
interrupt_vector(cause) == InterruptVectorBase + cause
exception_vector(cause) == ExceptionVectorBase + cause

\* the words of the table
Table == VectorBase .. VectorBase + VectorTableWords - 1
=============================================================================
