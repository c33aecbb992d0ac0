CONSTANTS
  inl = inl
  sta = sta
  NoStr = NoStr
  Threads = {t1, t2}
  Strings = {inl, sta, d1, d2, d3}
  Inlined = {inl}
  Static = {sta}
  PresetAtom <- MCPresetAtom
  InitCap = 1
  MaxGen = 3
SPECIFICATION FairSpec
INVARIANTS UniqueIssued DerefSound
PROPERTIES InternsFaithfully BuildReturns
