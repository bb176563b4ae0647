SPECIFICATION TimedSpec
CONSTANTS
    Blank = Blank
    ann = ann
    bob = bob
    eve = eve
    Entries = {ann, bob, eve, Blank}
    Envelopes <- MCEnvelopes
PROPERTIES
    SendReturns
