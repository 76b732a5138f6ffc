SPECIFICATION WizardSpec
CONSTANTS
  Admins = {anna, bob}
  anna = anna
  bob = bob
  Extras = {"title"}
  Hosts <- MCHosts
  MaxPosts = 4
SYMMETRY Symmetry
PROPERTIES
  ChoiceIsPublished
  AdoptedConnects
