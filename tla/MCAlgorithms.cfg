SPECIFICATION Spec
CONSTANTS FixBits = 5 WordBits = 8 Mantissa = 3 FracBits = 2 MaxExp = 4
          MaxGoals = 3 MaxChars = 4 MaxRounds = 12
          WordBytes = 2
          Encoding <- MCEncoding
          NameOrder <- MCNameOrder
PROPERTIES NumbersExact ClausesFaithful
           StringsFaithful UnifiesExactly CompareFaithful
INVARIANT UnifyEnds
CHECK_DEADLOCK FALSE
